---- MODULE Spec2Model ----
(***************************************************************************)
(* A model of RemoteOutputServiceDirectory                                 *)
(* (pkg/filesystem/virtual/remote_output_service_directory.go): the        *)
(* registry of output paths, the build session state machine, the          *)
(* BatchCreate path walkers and the missing-blob filter of StartBuild.     *)
(*                                                                         *)
(* Output path states are heap objects, identified by the order of their   *)
(* allocation (1, 2, ...); object 0 is the list head d.outputPaths.  A     *)
(* detached object stays in the heap, as a pointer held by a call in       *)
(* flight keeps it alive in the program.                                   *)
(***************************************************************************)
EXTENDS Integers, Sequences, FiniteSets, TLC

----------------------------------------------------------------------------
(* Bounds of the model. *)

\* Output path states ever allocated (creations by StartBuild).
MaxOutputPaths == 3

\* Nodes handed to the callback of one FilterChildren traversal.
MaxFilterNodes == 3

\* Distinct hashes per digest function.
MaxHash == 3

\* The batch threshold blobstore.RecommendedFindMissingDigestsCount, scaled.
MaxBatch == 2

----------------------------------------------------------------------------
(* Values. *)

Nil == "nil"

OK == "OK"

InvalidArgument == "InvalidArgument"

FailedPrecondition == "FailedPrecondition"

NotFound == "NotFound"

Internal == "Internal"

Threads == {1, 2}

OutputBases == {"ob1", "ob2"}

\* What a request may carry as output base ID; ".." is no valid filename.
OutputBaseIdInputs == OutputBases \cup {".."}

BuildIds == {"b1", "b2"}

DigestFunctions == {"sha256", "md5"}

Hashes == 1..MaxHash

\* path.NewComponent: the empty string, "." and ".." (and names holding a
\* slash) are no components.
NewComponentOk(name) == name \notin {"", ".", "..", "/"}

maximumTreeSizeBytes == 1

RecommendedFindMissingDigestsCount == MaxBatch

----------------------------------------------------------------------------
(* Sequences and functions. *)

Restrict(f, S) == [x \in S |-> f[x]]

IsPrefix(p, q) == Len(p) <= Len(q) /\ SubSeq(q, 1, Len(p)) = p

Front(s) == SubSeq(s, 1, Len(s) - 1)

Last(s) == s[Len(s)]

Range(s) == {s[i] : i \in DOMAIN s}

CeilDiv(n, t) == (n + t - 1) \div t

\* F(v), with v evaluated once.
Then(v, F(_)) == CHOOSE y \in {F(x) : x \in {v}} : TRUE

----------------------------------------------------------------------------
(* Output path trees (the collaborator virtual.PrepopulatedDirectory).     *)
(*                                                                         *)
(* A tree is the root directory of one output path: the nodes below the    *)
(* root, keyed by their path (a sequence of names), and whether the root   *)
(* was marked deleted by RemoveAllChildren(forbidNewChildren = true).      *)
(* A directory handle is the path of the directory: a handle whose path    *)
(* is no directory of the tree any more is a handle of a removed           *)
(* directory, on which every creation fails.                               *)

ENOENT == "ENOENT"

DirNode == [kind |-> "dir"]

FileNode(d) == [kind |-> "file", digest |-> d]

SymlinkNode(t) == [kind |-> "symlink", target |-> t]

\* A directory whose contents are loaded lazily from a tree digest.
CasDirNode(d) == [kind |-> "casdir", digest |-> d]

NoNodes == [p \in {} |-> DirNode]

EmptyTree == [deleted |-> FALSE, nodes |-> NoNodes]

IsDirectoryAt(tree, p) ==
    \/ p = <<>>
    \/ p \in DOMAIN tree.nodes /\ tree.nodes[p].kind \in {"dir", "casdir"}

\* Whether new children may be created in the directory with handle p.
AcceptsChildren(tree, p) ==
    IF p = <<>> THEN ~tree.deleted ELSE IsDirectoryAt(tree, p)

RemoveSubtree(nodes, p) ==
    Restrict(nodes, {q \in DOMAIN nodes : ~IsPrefix(p, q)})

PutNode(nodes, p, node) ==
    [q \in DOMAIN nodes \cup {p} |-> IF q = p THEN node ELSE nodes[q]]

\* PrepopulatedDirectory.CreateAndEnterPrepopulatedDirectory(name) on the
\* directory p: enters an existing directory (a lazily loaded one is loaded
\* by that; what the tree object holds is not modelled, so it is entered
\* as an empty directory), and otherwise replaces whatever has that name by
\* a new empty directory.
CreateAndEnterPrepopulatedDirectory(tree, p, name) ==
    LET child == Append(p, name)
    IN IF IsDirectoryAt(tree, p) /\ IsDirectoryAt(tree, child)
       THEN [err |-> OK,
             tree |-> [tree EXCEPT !.nodes = PutNode(tree.nodes, child, DirNode)]]
       ELSE IF ~AcceptsChildren(tree, p)
       THEN [err |-> ENOENT, tree |-> tree]
       ELSE [err |-> OK,
             tree |-> [tree EXCEPT
                 !.nodes = PutNode(RemoveSubtree(tree.nodes, child), child, DirNode)]]

\* PrepopulatedDirectory.CreateChildren({name: node}, overwrite = true).
CreateChildren(tree, p, name, node) ==
    LET child == Append(p, name)
    IN IF ~AcceptsChildren(tree, p)
       THEN [err |-> ENOENT, tree |-> tree]
       ELSE [err |-> OK,
             tree |-> [tree EXCEPT
                 !.nodes = PutNode(RemoveSubtree(tree.nodes, child), child, node)]]

\* PrepopulatedDirectory.RemoveAllChildren(forbidNewChildren) on the
\* directory p: with forbidNewChildren the directory is marked deleted, and
\* takes no new children afterwards.
RemoveAllChildren(tree, p, forbidNewChildren) ==
    [deleted |-> tree.deleted \/ (forbidNewChildren /\ p = <<>>),
     nodes |-> Restrict(tree.nodes,
         {q \in DOMAIN tree.nodes : ~(IsPrefix(p, q) /\ q # p)})]

----------------------------------------------------------------------------
(* path.Resolve with the two creating walkers of BatchCreate.              *)
(*                                                                         *)
(* A path is the sequence of its components: names, ".", "..", and a       *)
(* leading "/" for an absolute path.  A trailing slash is a final ".".     *)
(* The stack of directory handles is the path of its top: the root is      *)
(* the empty path, and PopSingle fails on it.                              *)

\* An OnUp that would stay in the root directory instead of failing.
CreatingOnUpClamped(stack) ==
    [err |-> OK, stack |-> IF stack = <<>> THEN stack ELSE Front(stack)]

\* OnUp of directoryCreatingComponentWalker and of
\* parentDirectoryCreatingComponentWalker.
CreatingOnUp(stack) ==
    IF stack = <<>>
    THEN [err |-> InvalidArgument, stack |-> stack]
    ELSE [err |-> OK, stack |-> Front(stack)]

\* OnDirectory of both creating walkers.
CreatingOnDirectory(tree, stack, name) ==
    Then(CreateAndEnterPrepopulatedDirectory(tree, stack, name), LAMBDA r :
        [err |-> r.err,
         tree |-> r.tree,
         stack |-> IF r.err = OK THEN Append(stack, name) ELSE stack])

\* path.Resolve(comps, path.NewRelativeScopeWalker(walker)); tracking tells
\* the parentDirectoryCreatingComponentWalker, whose OnTerminal only
\* records the name, from the directoryCreatingComponentWalker, whose
\* OnTerminal is OnDirectory.
RECURSIVE ResolveCreating(_, _, _, _)
ResolveCreating(tree, stack, comps, tracking) ==
    IF comps = <<>>
    THEN [err |-> OK, tree |-> tree, stack |-> stack, terminalName |-> Nil]
    ELSE IF Head(comps) = "/"
    THEN [err |-> InvalidArgument, tree |-> tree, stack |-> stack,
          terminalName |-> Nil]
    ELSE IF Head(comps) = "."
    THEN ResolveCreating(tree, stack, Tail(comps), tracking)
    ELSE IF Head(comps) = ".."
    THEN Then(CreatingOnUp(stack), LAMBDA u :
             IF u.err # OK
             THEN [err |-> u.err, tree |-> tree, stack |-> stack,
                   terminalName |-> Nil]
             ELSE ResolveCreating(tree, u.stack, Tail(comps), tracking))
    ELSE IF Tail(comps) = <<>> /\ tracking
    THEN [err |-> OK, tree |-> tree, stack |-> stack,
          terminalName |-> Head(comps)]
    ELSE Then(CreatingOnDirectory(tree, stack, Head(comps)), LAMBDA d :
             IF d.err # OK
             THEN [err |-> d.err, tree |-> d.tree, stack |-> stack,
                   terminalName |-> Nil]
             ELSE ResolveCreating(d.tree, d.stack, Tail(comps), tracking))

TerminalNameNeverNil(name) == FALSE

\* Lines 416-419: the walker has recorded no terminal name.
TerminalNameIsNil(name) == name = Nil

\* directoryCreatingComponentWalker.createChild(outputPath, initialNode).
createChild(tree, stack, outputPath, initialNode) ==
    Then(ResolveCreating(tree, stack, outputPath, TRUE), LAMBDA r :
        IF r.err # OK
        THEN [err |-> r.err, tree |-> r.tree]
        ELSE IF TerminalNameIsNil(r.terminalName)
        THEN [err |-> InvalidArgument, tree |-> r.tree]
        ELSE CreateChildren(r.tree, r.stack, r.terminalName, initialNode))

----------------------------------------------------------------------------
(* BatchCreate, after the session was validated.                           *)
(*                                                                         *)
(* A digest is [fn, hash, size]; a request carries hash and size, and      *)
(* hash 0 stands for a hash that is malformed for the digest function.     *)

Digest(fn, hash, size) == [fn |-> fn, hash |-> hash, size |-> size]

\* digest.Function.NewDigestFromProto.
NewDigestFromProto(fn, proto) ==
    IF proto.hash = 0
    THEN [err |-> InvalidArgument, digest |-> Nil]
    ELSE [err |-> OK, digest |-> Digest(fn, proto.hash, proto.size)]

\* The loop over request.Files.
RECURSIVE CreateFiles(_, _, _, _)
CreateFiles(tree, stack, files, fn) ==
    IF files = <<>>
    THEN [err |-> OK, tree |-> tree]
    ELSE Then(NewDigestFromProto(fn, Head(files).digest), LAMBDA d :
             IF d.err # OK
             THEN [err |-> d.err, tree |-> tree]
             ELSE Then(createChild(tree, stack, Head(files).path,
                                   FileNode(d.digest)), LAMBDA c :
                      IF c.err # OK
                      THEN c
                      ELSE CreateFiles(c.tree, stack, Tail(files), fn)))

\* Whether the tree digest of a directory entry is refused for its size.
ExceedsMaximumTreeSize(sizeBytes) == sizeBytes > maximumTreeSizeBytes

\* The loop over request.Directories.
RECURSIVE CreateDirectories(_, _, _, _)
CreateDirectories(tree, stack, directories, fn) ==
    IF directories = <<>>
    THEN [err |-> OK, tree |-> tree]
    ELSE Then(NewDigestFromProto(fn, Head(directories).digest), LAMBDA d :
             IF d.err # OK
             THEN [err |-> d.err, tree |-> tree]
             ELSE IF ExceedsMaximumTreeSize(d.digest.size)
             THEN [err |-> InvalidArgument, tree |-> tree]
             ELSE Then(createChild(tree, stack, Head(directories).path,
                                   CasDirNode(d.digest)), LAMBDA c :
                      IF c.err # OK
                      THEN c
                      ELSE CreateDirectories(c.tree, stack, Tail(directories), fn)))

\* The loop over request.Symlinks.
RECURSIVE CreateSymlinks(_, _, _)
CreateSymlinks(tree, stack, symlinks) ==
    IF symlinks = <<>>
    THEN [err |-> OK, tree |-> tree]
    ELSE Then(createChild(tree, stack, Head(symlinks).path,
                          SymlinkNode(Head(symlinks).target)), LAMBDA c :
             IF c.err # OK
             THEN c
             ELSE CreateSymlinks(c.tree, stack, Tail(symlinks)))

\* Lines 475-479: the contents of the path prefix directory are removed
\* when the request asks for it.
CleanPathPrefix(tree, stack, cleanPathPrefix) ==
    IF cleanPathPrefix THEN RemoveAllChildren(tree, stack, FALSE) ELSE tree

\* Tree operations that would be refused, as those of a call without a
\* running build are.
BatchCreateRefused(tree, request, fn) ==
    [err |-> FailedPrecondition, tree |-> tree]

\* BatchCreate from the resolution of the path prefix on: the tree it
\* leaves and the error it returns.
BatchCreateOnTree(tree, request, fn) ==
    Then(ResolveCreating(tree, <<>>, request.pathPrefix, FALSE), LAMBDA prefix :
        IF prefix.err # OK
        THEN [err |-> prefix.err, tree |-> prefix.tree]
        ELSE Then(CreateFiles(
                      CleanPathPrefix(prefix.tree, prefix.stack,
                                      request.cleanPathPrefix),
                      prefix.stack, request.files, fn), LAMBDA f :
                 IF f.err # OK
                 THEN f
                 ELSE Then(CreateDirectories(f.tree, prefix.stack,
                                             request.directories, fn), LAMBDA d :
                          IF d.err # OK
                          THEN d
                          ELSE CreateSymlinks(d.tree, prefix.stack,
                                              request.symlinks))))

FileEntry(path, hash) == [path |-> path, digest |-> [hash |-> hash, size |-> 1]]

DirectoryEntry(path, hash, size) ==
    [path |-> path, digest |-> [hash |-> hash, size |-> size]]

SymlinkEntry(path, target) == [path |-> path, target |-> target]

BatchCreateRequest(prefix, clean, files, directories, symlinks) ==
    [pathPrefix |-> prefix, cleanPathPrefix |-> clean, files |-> files,
     directories |-> directories, symlinks |-> symlinks]

\* The requests the model issues: a file and a symlink under a prefix
\* directory; a cleaned prefix with a file, a directory of more than
\* maximumTreeSizeBytes and a symlink; a directory and two symlinks at the
\* root; a prefix that leaves the output path; a file above the prefix and
\* one above the root; a symlink above the root, behind a new directory;
\* a file, a directory and a symlink whose paths end in a directory ("a/",
\* "." and "..").
BatchCreateRequests ==
    { BatchCreateRequest(<<"a">>, FALSE, << FileEntry(<<"f">>, 1) >>, <<>>,
          << SymlinkEntry(<<"l">>, <<"..", "..", "x">>) >>),
      BatchCreateRequest(<<"a">>, TRUE, << FileEntry(<<"g">>, 2) >>,
          << DirectoryEntry(<<"d">>, 1, maximumTreeSizeBytes + 1) >>,
          << SymlinkEntry(<<"l">>, <<"..", "..", "x">>) >>),
      BatchCreateRequest(<<>>, FALSE, <<>>,
          << DirectoryEntry(<<"d">>, 1, maximumTreeSizeBytes) >>,
          << SymlinkEntry(<<"l">>, <<"a">>),
             SymlinkEntry(<<"e">>, <<"/", "ext">>) >>),
      BatchCreateRequest(<<"..">>, FALSE, << FileEntry(<<"f">>, 1) >>, <<>>, <<>>),
      BatchCreateRequest(<<"a">>, FALSE,
          << FileEntry(<<"..", "a", "f">>, 1), FileEntry(<<"..", "..", "f">>, 1) >>,
          <<>>, <<>>),
      BatchCreateRequest(<<>>, FALSE, <<>>, <<>>,
          << SymlinkEntry(<<"a", "..", "..", "l">>, <<"a">>) >>),
      BatchCreateRequest(<<>>, FALSE, << FileEntry(<<"a", ".">>, 1) >>, <<>>, <<>>),
      BatchCreateRequest(<<"a">>, FALSE, <<>>,
          << DirectoryEntry(<<".">>, 1, maximumTreeSizeBytes) >>, <<>>),
      BatchCreateRequest(<<"a">>, FALSE, <<>>, <<>>,
          << SymlinkEntry(<<"..">>, <<"a">>) >>) }

----------------------------------------------------------------------------
(* The missing-blob filter of StartBuild.                                  *)
(*                                                                         *)
(* FilterChildren hands the callback one node after the other: a leaf      *)
(* with its digests, or a directory with the outcome of its                *)
(* GetContainingDigests (closure: OK, NotFound or another error) and,      *)
(* when OK, its digests.  failing is the set of nodes whose removeFunc     *)
(* returns an error.  The filter state holds the queue (digest -> the      *)
(* nodes whose removeFunc is queued under it), the digest sets handed to   *)
(* FindMissing so far, the nodes whose removeFunc has removed them, the    *)
(* saved error, and the answers of the coming FindMissing calls: each an   *)
(* error, or the digests the storage lacks at that moment.                 *)

FilterNode(id, kind, digests, closure) ==
    [id |-> id, kind |-> kind, digests |-> digests, closure |-> closure]

NoQueue == [d \in {} |-> <<>>]

\* The state of a run: the queue and savedErr of the code, the answers
\* FindMissing will give, and what the run has done so far: the digests
\* of each FindMissing call, each queue with the digests reported missing
\* from it, and the nodes whose removeFunc was called.
InitialFilterState(answers) ==
    [queue |-> NoQueue, calls |-> <<>>, batches |-> <<>>, removed |-> {},
     err |-> OK, answers |-> answers]

Answer(err, missing) == [err |-> err, missing |-> missing]

UsesAnyDigestFunction(d, fn) == TRUE

\* digest.Digest.UsesDigestFunction, as called at line 212: the digest has
\* the instance name and the digest function of the build.
UsesDigestFunction(d, fn) == d.fn = fn

\* digest.Set.Items: the digests of a set in their order.
DigestBefore(a, b) ==
    \/ a.hash < b.hash
    \/ a.hash = b.hash /\ a.size < b.size
    \/ a.hash = b.hash /\ a.size = b.size /\ a.fn = "md5" /\ b.fn # "md5"

RECURSIVE Items(_)
Items(set) ==
    IF set = {} THEN <<>>
    ELSE Then(CHOOSE d \in set : \A e \in set \ {d} : DigestBefore(d, e),
              LAMBDA first : <<first>> \o Items(set \ {first}))

RECURSIVE QueuedRemovalsFirstOnly(_, _)
QueuedRemovalsFirstOnly(queue, missing) ==
    IF missing = <<>> THEN <<>>
    ELSE <<Head(queue[Head(missing)])>>
             \o QueuedRemovalsFirstOnly(queue, Tail(missing))

\* The removeFuncs queued under the missing digests, in the order in which
\* findMissingAndRemove calls them.
RECURSIVE QueuedRemovals(_, _)
QueuedRemovals(queue, missing) ==
    IF missing = <<>> THEN <<>>
    ELSE queue[Head(missing)] \o QueuedRemovals(queue, Tail(missing))

\* Calls the removeFuncs in order, up to and including the first that fails.
RECURSIVE CallRemovals(_, _, _)
CallRemovals(ids, failing, removed) ==
    IF ids = <<>> THEN [err |-> OK, removed |-> removed]
    ELSE IF Head(ids) \in failing THEN [err |-> Internal, removed |-> removed]
    ELSE CallRemovals(Tail(ids), failing, removed \cup {Head(ids)})

\* findMissingAndRemove(queue) of a filter state: one FindMissing call on
\* the digests of the queue, answered by the first of st.answers, and the
\* removal of what it reports missing.
findMissingAndRemove(st, failing) ==
    LET query == DOMAIN st.queue
        answer == Head(st.answers)
        called == [st EXCEPT !.calls = Append(st.calls, query),
                             !.batches = Append(st.batches,
                                 [queue |-> st.queue,
                                  missing |-> IF answer.err = OK
                                              THEN query \cap answer.missing
                                              ELSE {}]),
                             !.answers = Tail(st.answers)]
    IN IF answer.err # OK
       THEN [called EXCEPT !.err = answer.err]
       ELSE Then(CallRemovals(
                     QueuedRemovals(st.queue, Items(query \cap answer.missing)),
                     failing, st.removed), LAMBDA r :
                [called EXCEPT !.err = r.err, !.removed = r.removed])

QueueIsOverfull(queue) ==
    Cardinality(DOMAIN queue) > RecommendedFindMissingDigestsCount

\* When the callback flushes the queue before adding one more digest.
QueueIsFull(queue) ==
    Cardinality(DOMAIN queue) >= RecommendedFindMissingDigestsCount

AppendToQueue(queue, d, id) ==
    [e \in DOMAIN queue \cup {d} |->
        IF e = d
        THEN (IF d \in DOMAIN queue THEN Append(queue[d], id) ELSE <<id>>)
        ELSE queue[e]]

\* The second loop of the callback: the digests of a node are queued one
\* by one, the queue being flushed whenever it is full.
RECURSIVE QueueDigests(_, _, _, _)
QueueDigests(st, digests, id, failing) ==
    IF digests = <<>> THEN st
    ELSE Then(IF QueueIsFull(st.queue)
              THEN [findMissingAndRemove(st, failing) EXCEPT !.queue = NoQueue]
              ELSE st, LAMBDA flushed :
             IF flushed.err # OK
             THEN [flushed EXCEPT !.queue = st.queue]
             ELSE Then([flushed EXCEPT
                           !.queue = AppendToQueue(flushed.queue,
                                                   Head(digests), id)],
                       LAMBDA queued :
                           QueueDigests(queued, Tail(digests), id, failing)))

ClosureNeverNotFound(err) == FALSE

\* Line 194: status.Code(savedErr) == codes.NotFound.
ClosureIsNotFound(err) == err = NotFound

\* The callback filterMissingChildren passes to FilterChildren, on one
\* node; the traversal goes on iff the state's err is OK afterwards.
FilterCallback(st, node, fn, failing) ==
    IF node.kind = "directory" /\ node.closure # OK
    THEN IF ClosureIsNotFound(node.closure)
         THEN IF node.id \in failing
              THEN [st EXCEPT !.err = Internal]
              ELSE [st EXCEPT !.removed = @ \cup {node.id}]
         ELSE [st EXCEPT !.err = node.closure]
    ELSE IF \E d \in node.digests : ~UsesDigestFunction(d, fn)
    THEN IF node.id \in failing
         THEN [st EXCEPT !.err = Internal]
         ELSE [st EXCEPT !.removed = @ \cup {node.id}]
    ELSE QueueDigests(st, Items(node.digests), node.id, failing)

FilterFinalBatchSkipped(st, failing) == st

\* The final batch, after the traversal.
FilterFinalBatch(st, failing) ==
    IF st.err # OK THEN st
    ELSE IF Cardinality(DOMAIN st.queue) > 0
    THEN findMissingAndRemove(st, failing)
    ELSE st

RECURSIVE FilterTraversal(_, _, _, _)
FilterTraversal(st, nodes, fn, failing) ==
    IF nodes = <<>> \/ st.err # OK THEN st
    ELSE Then(FilterCallback(st, Head(nodes), fn, failing), LAMBDA visited :
             FilterTraversal(visited, Tail(nodes), fn, failing))

\* filterMissingChildren(rootDirectory, digestFunction) on the nodes that
\* FilterChildren visits, in its order.
filterMissingChildren(nodes, fn, failing, answers) ==
    Then(FilterTraversal(InitialFilterState(answers), nodes, fn, failing),
         LAMBDA traversed : FilterFinalBatch(traversed, failing))

----------------------------------------------------------------------------
(* The state of RemoteOutputServiceDirectory and of the calls in flight.   *)

VARIABLES
    changeID,       \* d.changeID
    outputBaseIDs,  \* d.outputBaseIDs: output base ID -> object
    buildIDs,       \* d.buildIDs: build ID -> object
    heap,           \* object -> its outputPathState fields; 0 is d.outputPaths
    trees,          \* object -> the tree of its rootDirectory
    notified,       \* output base ID -> number of d.handle.NotifyRemoval calls
    calls,          \* thread -> the call it executes and where it stands
    filterRun,      \* a filterMissingChildren run on its own (SpecFilter)
    observed        \* an entry a VirtualReadDir call reported (SpecEnum)

registryVars == <<changeID, outputBaseIDs, buildIDs, heap>>

vars == <<changeID, outputBaseIDs, buildIDs, heap, trees, notified, calls, filterRun, observed>>

\* A call: the operation, where it stands, its request, what it has read
\* so far, and once it has returned its status and its response;
\* underLock holds the operations of an output path's root directory, and
\* of the output path factory, that the call invoked while it held d.lock.
Call(op, pc, arg, loc, result) ==
    [op |-> op, pc |-> pc, arg |-> arg, loc |-> loc, result |-> result,
     response |-> Nil, underLock |-> {}]

Idle == Call("idle", "idle", Nil, Nil, Nil)

Objects == DOMAIN heap \ {0}

\* The output path states on the list, from d.outputPaths.next on.
RECURSIVE RingFrom(_, _, _)
RingFrom(h, x, fuel) ==
    IF x = 0 \/ fuel = 0 THEN <<>>
    ELSE <<x>> \o RingFrom(h, h[x].next, fuel - 1)

Ring == RingFrom(heap, heap[0].next, Cardinality(DOMAIN heap))

BuildState(id, fn) == [id |-> id, digestFunction |-> fn]

\* The nil *buildState of an output path without a running build.
NoBuildState == BuildState(Nil, Nil)

\* A run of filterMissingChildren: its digest function, the removals that
\* fail, the nodes FilterChildren has handed to the callback so far, and
\* the state of the run.
FilterRun(phase, fn, failing, nodes, st) ==
    [phase |-> phase, fn |-> fn, failing |-> failing, nodes |-> nodes, st |-> st]

NoFilterRun == FilterRun("none", Nil, {}, <<>>, InitialFilterState(<<>>))

\* What the consumer of a directory listing holds of one reported entry:
\* the entry, the cookie reported with it, and the output paths that were
\* on the list then, at or before the entry and after it.
Observation(made, entry, nextCookie, upTo, later) ==
    [made |-> made, entry |-> entry, nextCookie |-> nextCookie,
     upTo |-> upTo, later |-> later]

NoObservation == Observation(FALSE, 0, 0, {}, <<>>)

Init ==
    /\ changeID = 0
    /\ outputBaseIDs = [ob \in {} |-> 0]
    /\ buildIDs = [b \in {} |-> 0]
    /\ heap = [x \in {0} |->
                 [buildState |-> NoBuildState, cookie |-> 0, outputBaseID |-> Nil,
                  previous |-> 0, next |-> 0]]
    /\ trees = [x \in {} |-> EmptyTree]
    /\ notified = [ob \in OutputBases |-> 0]
    /\ calls = [t \in Threads |-> Idle]
    /\ filterRun = NoFilterRun
    /\ observed = NoObservation

MapRemove(f, k) == Restrict(f, DOMAIN f \ {k})

MapPut(f, k, v) == [x \in DOMAIN f \cup {k} |-> IF x = k THEN v ELSE f[x]]

\* The call of thread t returns.
Returns(t, op, arg, result) ==
    [calls EXCEPT ![t] = Call(op, "done", arg, Nil, result)]

Responds(t, op, arg, response) ==
    [calls EXCEPT ![t] = [Call(op, "done", arg, Nil, OK) EXCEPT !.response = response]]

At(t, op, pc) == calls[t].op = op /\ calls[t].pc = pc

\* Thread t executes no call: it can start one.  Where the lock is
\* modelled (SpecLock) the thread has taken d.lock for the locked section
\* its call begins with.
Free(t) == calls[t].pc \in {"idle", "done", "locked"}

----------------------------------------------------------------------------
(* Clean. *)

\* Lines 114-122: the output base ID is checked and looked up under the lock.
CleanLookup(t, id) ==
    /\ Free(t)
    /\ calls' = IF ~NewComponentOk(id)
                THEN Returns(t, "Clean", id, InvalidArgument)
                ELSE IF id \in DOMAIN outputBaseIDs
                THEN [calls EXCEPT ![t] =
                         Call("Clean", "removeAllChildren", id, outputBaseIDs[id], Nil)]
                ELSE [calls EXCEPT ![t] = Call("Clean", "factoryClean", id, Nil, Nil)]
    /\ UNCHANGED <<registryVars, trees, notified, filterRun, observed>>

CleanRemoveAllChildrenAllowingNew(tree) == RemoveAllChildren(tree, <<>>, FALSE)

\* What Clean does to the tree of the output path, without the lock.
CleanRemoveAllChildren(tree) == RemoveAllChildren(tree, <<>>, TRUE)

CleanContinuingAfterFailure(call, err) ==
    [call EXCEPT !.pc = "commit", !.result = IF err = OK THEN @ ELSE err]

\* Lines 127-129: Clean returns the error of RemoveAllChildren and goes on
\* to the commit only without one.
CleanAfterRemoveAllChildren(call, err) ==
    IF err # OK
    THEN Call("Clean", "done", call.arg, Nil, err)
    ELSE [call EXCEPT !.pc = "commit"]

\* Lines 127-129.
CleanRemove(t) ==
    /\ At(t, "Clean", "removeAllChildren")
    /\ \E err \in {OK, Internal} :
          /\ trees' = IF err # OK THEN trees
                      ELSE [trees EXCEPT ![calls[t].loc] = CleanRemoveAllChildren(@)]
          /\ calls' = [calls EXCEPT ![t] = CleanAfterRemoveAllChildren(calls[t], err)]
    /\ UNCHANGED <<registryVars, notified, filterRun, observed>>

\* A test that would only ask whether the output base is registered.
CleanRegisteredByName(state, id) == id \in DOMAIN outputBaseIDs

\* Whether Clean, with the lock taken again, still removes the state.
CleanStillRegistered(state, id) ==
    id \in DOMAIN outputBaseIDs /\ outputBaseIDs[id] = state

UnlinkNothing(h, state) == h

\* Lines 133-134: the state is taken off the list.
Unlink(h, state) ==
    LET h1 == [h EXCEPT ![h[state].previous].next = h[state].next]
    IN [h1 EXCEPT ![h[state].next].previous = h[state].previous]

ChangeIDRemovalKept(c) == c

\* Line 135: d.changeID++ once the state is off the list.
ChangeIDAfterRemoval(c) == c + 1

\* Lines 131-142.
CleanCommit(t) ==
    /\ calls[t].op = "Clean" /\ calls[t].pc \in {"commit", "commitLocked"}
    /\ LET state == calls[t].loc
           id == calls[t].arg
       IN IF CleanStillRegistered(state, id)
          THEN /\ outputBaseIDs' = MapRemove(outputBaseIDs, id)
               /\ changeID' = ChangeIDAfterRemoval(changeID)
               /\ heap' = [Unlink(heap, state) EXCEPT ![state].buildState = NoBuildState]
               /\ buildIDs' = IF heap[state].buildState # NoBuildState
                              THEN MapRemove(buildIDs, heap[state].buildState.id)
                              ELSE buildIDs
          ELSE UNCHANGED registryVars
    /\ calls' = [calls EXCEPT ![t].pc = "notify"]
    /\ UNCHANGED <<trees, notified, filterRun, observed>>

\* Line 144.
CleanNotify(t) ==
    /\ At(t, "Clean", "notify")
    /\ notified' = [notified EXCEPT ![calls[t].arg] = @ + 1]
    /\ calls' = Returns(t, "Clean", calls[t].arg, OK)
    /\ UNCHANGED <<registryVars, trees, filterRun, observed>>

CleanResultIgnoringFactory(factoryErr) == OK

\* Lines 145-152: what Clean returns after outputPathFactory.Clean.
CleanResult(factoryErr) == factoryErr

\* Lines 145-151: outputPathFactory.Clean, which may fail.  The call
\* record keeps the invocations of the factory and their outcomes.
CleanFactory(t) ==
    /\ At(t, "Clean", "factoryClean")
    /\ \E err \in {OK, Internal} :
          calls' = [calls EXCEPT ![t].pc = "done", ![t].result = CleanResult(err),
                       ![t].response =
                           << [outputBaseID |-> calls[t].arg, err |-> err] >>]
    /\ UNCHANGED <<registryVars, trees, notified, filterRun, observed>>

----------------------------------------------------------------------------
(* StartBuild. *)

StartBuildRequest(id, buildId, fn, wellFormed) ==
    [outputBaseID |-> id, buildID |-> buildId, digestFunction |-> fn,
     wellFormed |-> wellFormed]

\* A new state that would be linked after the last one without becoming
\* the sentinel's previous.
NewOutputPathStateForwardOnly(h, id, cookie) ==
    LET state == Cardinality(DOMAIN h)
        last == h[0].previous
        h1 == [x \in DOMAIN h \cup {state} |->
                 IF x = state
                 THEN [buildState |-> NoBuildState, cookie |-> cookie, outputBaseID |-> id,
                       previous |-> last, next |-> 0]
                 ELSE h[x]]
    IN [h1 EXCEPT ![last].next = state]

\* Lines 316-328: a new output path state at the end of the list.
NewOutputPathState(h, id, cookie) ==
    LET state == Cardinality(DOMAIN h)
        last == h[0].previous
        h1 == [x \in DOMAIN h \cup {state} |->
                 IF x = state
                 THEN [buildState |-> NoBuildState, cookie |-> cookie, outputBaseID |-> id,
                       previous |-> last, next |-> 0]
                 ELSE h[x]]
        h2 == [h1 EXCEPT ![last].next = state]
    IN [h2 EXCEPT ![0].previous = state]

ChangeIDKept(c) == c

\* Line 327: d.changeID++ once the new state is on the list.
ChangeIDAfterCreation(c) == c + 1

\* Whether StartBuild takes the state of the build ID instead of the one
\* of the output base (line 289).
BuildIDIsKnown(buildId) == buildId \in DOMAIN buildIDs

ForceFinalizeKeepingBuildID(ids, previousBuild) == ids

\* Lines 293-298: the build ID of a build that was not finalized leaves
\* d.buildIDs.
ForceFinalize(ids, previousBuild) ==
    IF previousBuild # NoBuildState THEN MapRemove(ids, previousBuild.id) ELSE ids

OutputBaseNeverKnown(id) == FALSE

\* Line 291: whether an output path state exists for the output base.
OutputBaseIsKnown(id) == id \in DOMAIN outputBaseIDs

\* Lines 253-340.  The checks before the lock read the request alone.
StartBuildRegister(t, request) ==
    /\ Free(t)
    /\ IF ~request.wellFormed \/ ~NewComponentOk(request.outputBaseID)
       THEN /\ calls' = Returns(t, "StartBuild", request, InvalidArgument)
            /\ UNCHANGED <<registryVars, trees>>
       ELSE IF BuildIDIsKnown(request.buildID)
       THEN /\ calls' = [calls EXCEPT ![t] =
                Call("StartBuild", "filter", request, buildIDs[request.buildID], Nil)]
            /\ UNCHANGED <<registryVars, trees>>
       ELSE LET id == request.outputBaseID
                known == OutputBaseIsKnown(id)
                state == IF known THEN outputBaseIDs[id] ELSE Cardinality(DOMAIN heap)
                h1 == IF known THEN heap ELSE NewOutputPathState(heap, id, changeID)
                previousBuild == IF known THEN heap[state].buildState ELSE NoBuildState
            IN /\ heap' = [h1 EXCEPT ![state].buildState =
                              BuildState(request.buildID, request.digestFunction)]
               /\ outputBaseIDs' = MapPut(outputBaseIDs, id, state)
               /\ changeID' = IF known THEN changeID ELSE ChangeIDAfterCreation(changeID)
               /\ trees' = IF known THEN trees
                           ELSE [x \in DOMAIN trees \cup {state} |->
                                   IF x = state THEN EmptyTree ELSE trees[x]]
               /\ buildIDs' = MapPut(ForceFinalize(buildIDs, previousBuild),
                                     request.buildID, state)
               /\ calls' = [calls EXCEPT ![t] =
                      [Call("StartBuild", "filter", request, state, Nil)
                          EXCEPT !.underLock = IF known THEN {}
                                               ELSE {"StartInitialBuild"}]]
    /\ UNCHANGED <<notified, filterRun, observed>>

\* The nodes of a tree that FilterChildren hands to the callback: the
\* leaves and the directories that were not loaded yet.
FilteredPaths(tree) ==
    {p \in DOMAIN tree.nodes : tree.nodes[p].kind # "dir"}

\* leaf.GetContainingDigests, and what a directory's tree digest stands
\* for when its closure can be computed.
ContainingDigests(node) ==
    IF node.kind \in {"file", "casdir"} THEN {node.digest} ELSE {}

FilterNodeAt(tree, p, closure) ==
    FilterNode(p,
               IF tree.nodes[p].kind = "casdir" THEN "directory" ELSE "leaf",
               ContainingDigests(tree.nodes[p]),
               IF tree.nodes[p].kind = "casdir" THEN closure ELSE OK)

Orders(S) ==
    {s \in [1..Cardinality(S) -> S] : \A i, j \in DOMAIN s : i # j => s[i] # s[j]}

TreeDigests(tree) ==
    UNION {ContainingDigests(tree.nodes[p]) : p \in DOMAIN tree.nodes}

\* The digests of a tree that a run with this digest function can put
\* into a FindMissing call: a node with another digest is removed unasked.
QueryableDigests(tree, fn) ==
    {d \in TreeDigests(tree) : UsesDigestFunction(d, fn)}

\* What FindMissing may answer: an error, or the digests it lacks.
Answers(digests) ==
    {Answer(Internal, {})} \cup {Answer(OK, m) : m \in SUBSET digests}

RECURSIVE RemoveAll(_, _)
RemoveAll(nodes, paths) ==
    IF paths = {} THEN nodes
    ELSE Then(CHOOSE q \in paths : TRUE, LAMBDA p :
             Then(RemoveSubtree(nodes, p), LAMBDA rest :
                 RemoveAll(rest, paths \ {p})))

\* The order in which FilterChildren visits the nodes of a tree: one
\* order per set of nodes (SpecFilter covers every sequence of nodes).
FilterChildrenOrder(paths) == CHOOSE order \in Orders(paths) : TRUE

\* The most FindMissing calls a traversal of these nodes can make.
MaxFindMissingCalls(tree, paths) ==
    CeilDiv(Cardinality({p \in paths : ContainingDigests(tree.nodes[p]) # {}}),
            RecommendedFindMissingDigestsCount)

StartBuildResultIgnoringFilter(err) == OK

\* Lines 348-350 and 352-358: the error of the filter, wrapped, is the
\* status of StartBuild; wrapping keeps the code.
StartBuildResult(err) == err

StartBuildFilterOfSession(request, buildState) == buildState.digestFunction

\* Line 348: the digest function handed to filterMissingChildren is the one
\* parsed from the request at lines 281-286.
StartBuildFilterDigestFunction(request, buildState) == request.digestFunction

\* Lines 348-358: the filter runs on the tree of the state, without the
\* lock; the closures of the directories, the removals that fail and the
\* answers of FindMissing are not the caller's.  The call record keeps
\* the run, for what the response of StartBuild rests on.
StartBuildFilter(t) ==
    /\ At(t, "StartBuild", "filter")
    /\ \E tree \in {trees[calls[t].loc]},
          fn \in {StartBuildFilterDigestFunction(calls[t].arg,
                                                heap[calls[t].loc].buildState)} :
       \E order \in {FilterChildrenOrder(FilteredPaths(tree))} :
       \E closure \in IF \E p \in FilteredPaths(tree) : tree.nodes[p].kind = "casdir"
                      THEN {OK, NotFound, Internal} ELSE {OK},
          failing \in {{}} \cup {{p} : p \in FilteredPaths(tree)},
          answers \in [1..MaxFindMissingCalls(tree, FilteredPaths(tree)) ->
                          Answers(QueryableDigests(tree, fn))] :
       \E nodes \in {[i \in DOMAIN order |-> FilterNodeAt(tree, order[i], closure)]} :
       \E run \in {filterMissingChildren(nodes, fn, failing, answers)} :
          /\ trees' = [trees EXCEPT ![calls[t].loc].nodes = RemoveAll(@, run.removed)]
          /\ calls' = [calls EXCEPT
                ![t].pc = "done",
                ![t].result = StartBuildResult(run.err),
                ![t].response = FilterRun("done", fn, failing, nodes,
                                          [run EXCEPT !.answers = <<>>])]
    /\ UNCHANGED <<registryVars, notified, filterRun, observed>>

----------------------------------------------------------------------------
(* getOutputPathAndBuildState, BatchCreate, BatchStat, FinalizeBuild. *)

getOutputPathAndBuildStateNotFound(buildId) ==
    IF buildId \notin DOMAIN buildIDs
    THEN [err |-> NotFound, state |-> 0, buildState |-> NoBuildState]
    ELSE [err |-> OK, state |-> buildIDs[buildId],
          buildState |-> heap[buildIDs[buildId]].buildState]

\* Lines 364-373.
getOutputPathAndBuildState(buildId) ==
    IF buildId \notin DOMAIN buildIDs
    THEN [err |-> FailedPrecondition, state |-> 0, buildState |-> NoBuildState]
    ELSE [err |-> OK, state |-> buildIDs[buildId],
          buildState |-> heap[buildIDs[buildId]].buildState]

\* Lines 463-466.
BatchCreateValidate(t, buildId, request) ==
    /\ Free(t)
    /\ LET r == getOutputPathAndBuildState(buildId)
           arg == [buildID |-> buildId, request |-> request]
       IN calls' = IF r.err # OK
                   THEN Returns(t, "BatchCreate", arg, r.err)
                   ELSE [calls EXCEPT ![t] = Call("BatchCreate", "create", arg, r, Nil)]
    /\ UNCHANGED <<registryVars, trees, notified, filterRun, observed>>

\* Lines 468-525.
BatchCreateCreate(t) ==
    /\ At(t, "BatchCreate", "create")
    /\ \E r \in {BatchCreateOnTree(trees[calls[t].loc.state],
                                     calls[t].arg.request,
                                     calls[t].loc.buildState.digestFunction)} :
          /\ trees' = [trees EXCEPT ![calls[t].loc.state] = r.tree]
          /\ calls' = [calls EXCEPT ![t].pc = "done", ![t].result = r.err]
    /\ UNCHANGED <<registryVars, notified, filterRun, observed>>

----------------------------------------------------------------------------
(* BatchStat: path.Resolve with the statWalker, behind the virtual root    *)
(* and the loop detection of the scope walker factory.                     *)
(*                                                                         *)
(* An absolute path <<"/", "OUT", ...>> lies below the output path or one  *)
(* of its aliases; any other absolute path lies outside.  The walker       *)
(* state: the stack (the path of its top), the file status, the resolved   *)
(* path built so far, whether the resolution has left the output path,     *)
(* and the symbolic links followed.                                        *)

MaxSymlinks == 2

StatWalker(tree, followSymlinks, digestFunction) ==
    [tree |-> tree, followSymlinks |-> followSymlinks,
     digestFunction |-> digestFunction]

InitialStat ==
    [stack |-> <<>>, status |-> [type |-> "external"], resolved |-> <<>>,
     void |-> FALSE, symlinks |-> 0, err |-> OK]

\* leaf.GetOutputServiceFileStatus(digestFunction).
LeafStatus(node, digestFunction) ==
    IF node.kind = "symlink"
    THEN [type |-> "symlink", target |-> node.target]
    ELSE [type |-> "file",
          digest |-> IF digestFunction = Nil THEN <<>> ELSE <<node.digest>>]

\* An OnUp that would reject leaving the output path, as the creating
\* walkers do.
StatOnUpRejecting(st) ==
    IF st.stack = <<>>
    THEN [st EXCEPT !.err = InvalidArgument]
    ELSE [st EXCEPT !.stack = Front(@), !.resolved = Front(@)]

\* OnUp, and how the path builder follows it.
StatOnUp(st) ==
    IF st.stack = <<>>
    THEN [st EXCEPT !.status = [type |-> "external"], !.void = TRUE,
                    !.resolved = Append(@, "..")]
    ELSE [st EXCEPT !.stack = Front(@), !.resolved = Front(@)]

\* OnScope of the walker for a path or a link target, behind the virtual
\* root: what is left to resolve, and the walker state.
StatOnScope(st, comps) ==
    IF comps # <<>> /\ Head(comps) = "/"
    THEN IF Len(comps) >= 2 /\ comps[2] = "OUT"
         THEN [st |-> [st EXCEPT !.stack = <<>>, !.resolved = <<>>,
                                 !.status = [type |-> "directory"]],
               comps |-> SubSeq(comps, 3, Len(comps))]
         ELSE [st |-> [st EXCEPT !.void = TRUE, !.resolved = <<>>], comps |-> comps]
    ELSE [st |-> [st EXCEPT !.status = [type |-> "directory"]], comps |-> comps]

OnTerminalFollowsAlways(followSymlinks, node) == node.kind = "symlink"

\* Lines 598-612: OnTerminal follows a leaf when followSymlinks is set and
\* Readlink succeeds on it.
OnTerminalFollows(followSymlinks, node) ==
    followSymlinks /\ node.kind = "symlink"

RECURSIVE StatComponents(_, _, _)
\* A symbolic link with this target was met, with rest still to resolve.
StatFollow(w, st, target, rest) ==
    IF st.symlinks >= MaxSymlinks
    THEN [st EXCEPT !.err = "ELOOP"]
    ELSE Then(StatOnScope([st EXCEPT !.status = [type |-> "external"],
                                     !.symlinks = @ + 1], target), LAMBDA s :
             StatComponents(w, s.st, s.comps \o rest))

\* The components of a path, one by one: OnDirectory, OnTerminal, OnUp.
StatComponents(w, st, comps) ==
    IF comps = <<>> \/ st.err # OK THEN st
    ELSE IF st.void
    THEN [st EXCEPT !.resolved = @ \o SelectSeq(comps, LAMBDA c : c # ".")]
    ELSE LET c == Head(comps)
             rest == Tail(comps)
             child == Append(st.stack, c)
         IN IF c = "." THEN StatComponents(w, st, rest)
            ELSE IF c = ".."
            THEN Then(StatOnUp(st), LAMBDA up : StatComponents(w, up, rest))
            ELSE IF child \notin DOMAIN w.tree.nodes
            THEN [st EXCEPT !.err = ENOENT]
            ELSE LET node == w.tree.nodes[child]
                 IN IF node.kind \in {"dir", "casdir"}
                    THEN Then([st EXCEPT !.stack = child,
                                         !.resolved = Append(@, c)],
                              LAMBDA entered : StatComponents(w, entered, rest))
                    ELSE IF rest # <<>>
                    THEN IF node.kind = "symlink"
                         THEN StatFollow(w, st, node.target, rest)
                         ELSE [st EXCEPT !.err = "ENOTDIR"]
                    ELSE IF OnTerminalFollows(w.followSymlinks, node)
                    THEN StatFollow(w, st, node.target, <<>>)
                    ELSE [st EXCEPT !.status = LeafStatus(node, w.digestFunction),
                                    !.resolved = Append(@, c)]

\* Lines 651-696: the response for one path, or the error that fails the
\* call.
StatPath(w, statPath) ==
    Then(StatOnScope(InitialStat, statPath), LAMBDA s :
    Then(StatComponents(w, s.st, s.comps), LAMBDA st :
        IF st.err = ENOENT THEN [err |-> OK, response |-> [type |-> "none"]]
        ELSE IF st.err # OK THEN [err |-> st.err, response |-> [type |-> "none"]]
        ELSE IF st.status.type = "external"
        THEN [err |-> OK,
              response |-> [type |-> "external", nextPath |-> st.resolved]]
        ELSE [err |-> OK, response |-> st.status]))

\* A loop over request.Paths that would hand back the responses gathered
\* before the failing path.
RECURSIVE StatPathsPartial(_, _, _)
StatPathsPartial(w, paths, responses) ==
    IF paths = <<>> THEN [err |-> OK, responses |-> responses]
    ELSE Then(StatPath(w, Head(paths)), LAMBDA r :
             IF r.err # OK THEN [err |-> r.err, responses |-> responses]
             ELSE StatPathsPartial(w, Tail(paths), Append(responses, r.response)))

\* Lines 647-698: the loop over request.Paths.
RECURSIVE StatPaths(_, _, _)
StatPaths(w, paths, responses) ==
    IF paths = <<>> THEN [err |-> OK, responses |-> responses]
    ELSE Then(StatPath(w, Head(paths)), LAMBDA r :
             IF r.err # OK THEN [err |-> r.err, responses |-> <<>>]
             ELSE StatPaths(w, Tail(paths), Append(responses, r.response)))

BatchStatRequest(paths, followSymlinks, includeFileDigest) ==
    [paths |-> paths, followSymlinks |-> followSymlinks,
     includeFileDigest |-> includeFileDigest]

\* Lines 642-645.
BatchStatValidate(t, buildId, request) ==
    /\ Free(t)
    /\ LET r == getOutputPathAndBuildState(buildId)
           arg == [buildID |-> buildId, request |-> request]
       IN calls' = IF r.err # OK
                   THEN Returns(t, "BatchStat", arg, r.err)
                   ELSE [calls EXCEPT ![t] = Call("BatchStat", "stat", arg, r, Nil)]
    /\ UNCHANGED <<registryVars, trees, notified, filterRun, observed>>

TreeAfterStatCleaned(tree) == RemoveAllChildren(tree, <<>>, FALSE)

\* Lines 551-621 and 679: what the statWalker and BatchStat call on the
\* directories of the tree (LookupChild, Readlink,
\* GetOutputServiceFileStatus, VirtualGetAttributes) only reads it.
TreeAfterStat(tree) == tree

\* Lines 647-698.
BatchStatStat(t) ==
    /\ At(t, "BatchStat", "stat")
    /\ LET request == calls[t].arg.request
           w == StatWalker(trees[calls[t].loc.state], request.followSymlinks,
                    IF request.includeFileDigest
                    THEN calls[t].loc.buildState.digestFunction ELSE Nil)
       IN \E r \in {StatPaths(w, request.paths, <<>>)} :
             calls' = [calls EXCEPT ![t].pc = "done", ![t].result = r.err,
                                    ![t].response = r.responses]
    /\ trees' = [trees EXCEPT ![calls[t].loc.state] = TreeAfterStat(@)]
    /\ UNCHANGED <<registryVars, notified, filterRun, observed>>

ClearBuildStateKept(h, state) == h

\* Line 714: outputPathState.buildState = nil.
ClearBuildState(h, state) == [h EXCEPT ![state].buildState = NoBuildState]

\* Lines 704-717.
FinalizeBuild(t, buildId) ==
    /\ Free(t)
    /\ IF buildId \in DOMAIN buildIDs
       THEN LET state == buildIDs[buildId]
            IN /\ buildIDs' = MapRemove(buildIDs, heap[state].buildState.id)
               /\ heap' = ClearBuildState(heap, state)
       ELSE UNCHANGED <<buildIDs, heap>>
    /\ calls' = [Returns(t, "FinalizeBuild", buildId, OK) EXCEPT
                    ![t].underLock = IF buildId \in DOMAIN buildIDs
                                     THEN {"FinalizeBuild"} ELSE {}]
    /\ UNCHANGED <<changeID, outputBaseIDs, trees, notified, filterRun, observed>>

----------------------------------------------------------------------------
(* The directory operations. *)

EmptyDirectoryLinkCount == 2

\* Lines 721-732.
VirtualGetAttributes(t) ==
    /\ Free(t)
    /\ calls' = Responds(t, "VirtualGetAttributes", Nil,
           [changeID |-> changeID,
            linkCount |-> EmptyDirectoryLinkCount + Cardinality(DOMAIN outputBaseIDs)])
    /\ UNCHANGED <<registryVars, trees, notified, filterRun, observed>>

\* A lookup that would only find output paths with a running build.
HasOutputPathInBuild(name) ==
    /\ name \in DOMAIN outputBaseIDs
    /\ heap[outputBaseIDs[name]].buildState # NoBuildState

\* Line 738: d.outputBaseIDs[name].
HasOutputPath(name) == name \in DOMAIN outputBaseIDs

\* Lines 737-742: the lookup under the lock.
VirtualLookupLookup(t, name) ==
    /\ Free(t)
    /\ calls' = IF ~HasOutputPath(name)
                THEN Returns(t, "VirtualLookup", name, ENOENT)
                ELSE [calls EXCEPT ![t] =
                         Call("VirtualLookup", "getAttributes", name,
                              outputBaseIDs[name], Nil)]
    /\ UNCHANGED <<registryVars, trees, notified, filterRun, observed>>

\* Lines 743-744: the attributes of the root directory, without the lock.
VirtualLookupGetAttributes(t) ==
    /\ At(t, "VirtualLookup", "getAttributes")
    /\ calls' = [calls EXCEPT ![t].pc = "done", ![t].result = OK,
                              ![t].response = calls[t].loc]
    /\ UNCHANGED <<registryVars, trees, notified, filterRun, observed>>

\* Lines 750-758.
VirtualOpenChild(t, name) ==
    /\ Free(t)
    /\ calls' = Returns(t, "VirtualOpenChild", name,
           IF name \in DOMAIN outputBaseIDs THEN "EISDIR" ELSE ENOENT)
    /\ UNCHANGED <<registryVars, trees, notified, filterRun, observed>>

\* Lines 767-776: the first output path at or past the cookie.
RECURSIVE SkipBefore(_, _)
SkipBefore(ring, firstCookie) ==
    IF ring = <<>> THEN <<>>
    ELSE IF heap[Head(ring)].cookie >= firstCookie THEN ring
    ELSE SkipBefore(Tail(ring), firstCookie)

NextCookieOfEntry(state) == heap[state].cookie

\* reporter.ReportEntry's first argument: the cookie past the entry.
NextCookie(state) == heap[state].cookie + 1

ReportedEntry(state) ==
    [nextCookie |-> NextCookie(state), name |-> heap[state].outputBaseID,
     child |-> state]

\* Lines 762-788, with a reporter that takes at most capacity entries.
ReadDirEntries(firstCookie, capacity) ==
    LET rest == SkipBefore(Ring, firstCookie)
        n == IF Len(rest) < capacity THEN Len(rest) ELSE capacity
    IN [i \in 1..n |-> ReportedEntry(rest[i])]

VirtualReadDir(t, firstCookie, capacity) ==
    /\ Free(t)
    /\ calls' = [Responds(t, "VirtualReadDir",
                     [firstCookie |-> firstCookie, capacity |-> capacity],
                     ReadDirEntries(firstCookie, capacity)) EXCEPT
                    ![t].underLock =
                        IF ReadDirEntries(firstCookie, capacity) # <<>>
                        THEN {"VirtualGetAttributes"} ELSE {}]
    /\ UNCHANGED <<registryVars, trees, notified, filterRun>>

----------------------------------------------------------------------------
(* The calls a thread makes, and their steps. *)

\* The bound on the output path states a behaviour allocates.
WithinBounds == Cardinality(DOMAIN heap') - 1 <= MaxOutputPaths

CleanCall(t, ids) ==
    \/ \E id \in ids : CleanLookup(t, id)
    \/ CleanRemove(t)
    \/ CleanCommit(t)
    \/ CleanNotify(t)
    \/ CleanFactory(t)

StartBuildCall(t, requests) ==
    \/ \E request \in requests : StartBuildRegister(t, request) /\ WithinBounds
    \/ StartBuildFilter(t)

BatchCreateCall(t, requests) ==
    \/ \E b \in BuildIds, request \in requests : BatchCreateValidate(t, b, request)
    \/ BatchCreateCreate(t)

BatchStatCall(t, requests) ==
    \/ \E b \in BuildIds, request \in requests : BatchStatValidate(t, b, request)
    \/ BatchStatStat(t)

FinalizeBuildCall(t) == \E b \in BuildIds : FinalizeBuild(t, b)

BatchStatRequests ==
    { BatchStatRequest(<< <<"a", "f">>, <<"nothing">> >>, FALSE, TRUE),
      BatchStatRequest(<< <<"l">>, <<"a", "l">> >>, TRUE, FALSE),
      BatchStatRequest(<< <<"e", "y">>, <<"a">> >>, FALSE, FALSE),
      BatchStatRequest(<< <<"a", "l">>, <<"..", "x">> >>, FALSE, FALSE),
      BatchStatRequest(<< <<"a">>, <<"a", "f", "x">> >>, FALSE, FALSE),
      BatchStatRequest(<< <<"l", "f">>, <<"l">> >>, FALSE, FALSE) }

----------------------------------------------------------------------------
(* Spec: the gRPC service with one call at a time, on two output bases     *)
(* and two build ids.                                                      *)

RegistryStartBuildRequests ==
    {StartBuildRequest(id, b, "sha256", TRUE) :
        id \in OutputBaseIdInputs, b \in BuildIds}
    \cup {StartBuildRequest("ob1", "b1", "sha256", FALSE),
          StartBuildRequest("ob2", "b1", "md5", TRUE)}

RegistryBatchCreateRequests ==
    { BatchCreateRequest(<<"a">>, FALSE, << FileEntry(<<"f">>, 1) >>, <<>>, <<>>) }

RegistryBatchStatRequests ==
    { BatchStatRequest(<< <<"a", "f">> >>, FALSE, TRUE) }

Next ==
    \/ CleanCall(1, OutputBaseIdInputs)
    \/ StartBuildCall(1, RegistryStartBuildRequests)
    \/ BatchCreateCall(1, RegistryBatchCreateRequests)
    \/ BatchStatCall(1, RegistryBatchStatRequests)
    \/ FinalizeBuildCall(1)

Spec == Init /\ [][Next]_vars

----------------------------------------------------------------------------
(* SpecTree: one call at a time on one output base, with every request of  *)
(* BatchCreateRequests and BatchStatRequests and both digest functions.    *)

TreeStartBuildRequests ==
    {StartBuildRequest("ob1", "b1", fn, TRUE) : fn \in DigestFunctions}

NextTree ==
    \/ CleanCall(1, {"ob1"})
    \/ StartBuildCall(1, TreeStartBuildRequests)
    \/ BatchCreateCall(1, BatchCreateRequests)
    \/ BatchStatCall(1, BatchStatRequests)
    \/ FinalizeBuildCall(1)

SpecTree == Init /\ [][NextTree]_vars

----------------------------------------------------------------------------
(* SpecConcurrent: two threads on one output base, every interleaving of   *)
(* the steps of their calls.                                               *)

ConcurrentStartBuildRequests ==
    {StartBuildRequest("ob1", b, "sha256", TRUE) : b \in BuildIds}

NextConcurrent ==
    \E t \in Threads :
        \/ CleanCall(t, {"ob1"})
        \/ StartBuildCall(t, ConcurrentStartBuildRequests)
        \/ BatchCreateCall(t, RegistryBatchCreateRequests)
        \/ BatchStatCall(t, RegistryBatchStatRequests)
        \/ FinalizeBuildCall(t)

SpecConcurrent == Init /\ [][NextConcurrent]_vars

----------------------------------------------------------------------------
(* SpecEnum: output paths are created and removed, one call at a time,     *)
(* while a consumer lists the directory and resumes from a cookie it got.  *)

EnumStartBuildRequests ==
    {StartBuildRequest(id, b, "sha256", TRUE) : id \in OutputBases, b \in BuildIds}

\* The output paths on the list up to and including state.
RECURSIVE RingUpTo(_, _)
RingUpTo(ring, state) ==
    IF ring = <<>> THEN {}
    ELSE IF Head(ring) = state THEN {state}
    ELSE {Head(ring)} \cup RingUpTo(Tail(ring), state)

\* The output paths on the list after state.
RECURSIVE RingAfter(_, _)
RingAfter(ring, state) ==
    IF ring = <<>> THEN <<>>
    ELSE IF Head(ring) = state THEN Tail(ring)
    ELSE RingAfter(Tail(ring), state)

Observe(entry) ==
    Observation(TRUE, entry.child, entry.nextCookie,
                RingUpTo(Ring, entry.child), RingAfter(Ring, entry.child))

\* VirtualReadDir from any cookie, with a reporter of any capacity; the
\* consumer keeps one of the reported entries, or the one it held.
ReadDirCall(t) ==
    \E firstCookie \in 0..changeID, capacity \in 1..MaxOutputPaths :
        /\ VirtualReadDir(t, firstCookie, capacity)
        /\ \/ UNCHANGED observed
           \/ \E entry \in Range(ReadDirEntries(firstCookie, capacity)) :
                 observed' = Observe(entry)

DirectoryCall(t) ==
    \/ VirtualGetAttributes(t)
    \/ \E name \in OutputBases : VirtualLookupLookup(t, name)
    \/ VirtualLookupGetAttributes(t)
    \/ \E name \in OutputBases : VirtualOpenChild(t, name)

NextEnum ==
    \/ CleanCall(1, OutputBases)
    \/ StartBuildCall(1, EnumStartBuildRequests)
    \/ ReadDirCall(1)
    \/ DirectoryCall(1)

SpecEnum == Init /\ [][NextEnum]_vars

----------------------------------------------------------------------------
(* SpecOperations: every operation of the service and of the directory,    *)
(* one call at a time, on two output bases and two build ids.              *)

NextOperations ==
    \/ CleanCall(1, OutputBaseIdInputs)
    \/ StartBuildCall(1, RegistryStartBuildRequests)
    \/ BatchCreateCall(1, RegistryBatchCreateRequests)
    \/ BatchStatCall(1, RegistryBatchStatRequests)
    \/ FinalizeBuildCall(1)
    \/ DirectoryCall(1)
    \/ \E firstCookie \in 0..changeID :
          VirtualReadDir(1, firstCookie, MaxOutputPaths) /\ UNCHANGED observed

SpecOperations == Init /\ [][NextOperations]_vars

----------------------------------------------------------------------------
(* SpecLock: d.lock made explicit.  Thread 1 is a build client (Clean,     *)
(* StartBuild, FinalizeBuild on one output base), thread 2 the file        *)
(* system, which looks up, stats and lists the directory; an operation it  *)
(* issues while RemoveAllChildren or NotifyRemoval of a Clean runs is one  *)
(* that these calls wait for.  A thread that wants the lock is at          *)
(* "waiting" (or at "commit", in Clean); it holds it at "locked" (or       *)
(* "commitLocked"), and the locked section that follows releases it.       *)

CleanHoldsLockThroughout(pc) ==
    pc \in {"removeAllChildren", "commit", "commitLocked", "notify"}

\* Where Clean holds d.lock: lines 119-121 are the section it starts
\* with, lines 131-142 the commit.
CleanHoldsLockAt(pc) == pc = "commitLocked"

HoldsLock(t) ==
    \/ calls[t].pc = "locked"
    \/ calls[t].op = "Clean" /\ CleanHoldsLockAt(calls[t].pc)

WaitsForLock(t) == calls[t].pc = "waiting" \/ At(t, "Clean", "commit")

\* A call arrives and wants d.lock.
LockWait(t) ==
    /\ calls[t].pc \in {"idle", "done"}
    /\ calls' = [calls EXCEPT ![t] = Call("call", "waiting", Nil, Nil, Nil)]
    /\ UNCHANGED <<registryVars, trees, notified, filterRun, observed>>

\* d.lock.Lock() returns.
LockAcquire(t) ==
    /\ WaitsForLock(t)
    /\ \A u \in Threads : ~HoldsLock(u)
    /\ calls' = [calls EXCEPT ![t].pc =
                    IF calls[t].pc = "waiting" THEN "locked" ELSE "commitLocked"]
    /\ UNCHANGED <<registryVars, trees, notified, filterRun, observed>>

LockStartBuildRequests == {StartBuildRequest("ob1", "b1", "sha256", TRUE)}

\* The locked sections of the build client, up to d.lock.Unlock().
ClientSection(t) ==
    \/ /\ calls[t].pc = "locked"
       /\ \/ CleanLookup(t, "ob1")
          \/ \E request \in LockStartBuildRequests :
                StartBuildRegister(t, request) /\ WithinBounds
          \/ FinalizeBuild(t, "b1")
    \/ At(t, "Clean", "commitLocked") /\ CleanCommit(t)

\* The locked sections of the directory operations.
DirectorySection(t) ==
    /\ calls[t].pc = "locked"
    /\ \/ VirtualGetAttributes(t)
       \/ VirtualLookupLookup(t, "ob1")
       \/ VirtualOpenChild(t, "ob1")
       \/ VirtualReadDir(t, 0, MaxOutputPaths) /\ UNCHANGED observed

\* The file system is inside an operation on the directory.
DirectoryOperationRuns == calls[2].pc \in {"waiting", "locked", "getAttributes"}

\* What the build client does without its locked sections: the calls of
\* Clean into the output path and the file system return once the
\* operations of the file system on the directory have returned.
ClientCollaborator(t) ==
    \/ ~DirectoryOperationRuns /\ CleanRemove(t)
    \/ ~DirectoryOperationRuns /\ CleanNotify(t)
    \/ CleanFactory(t)
    \/ StartBuildFilter(t)

NextLock ==
    \/ \E t \in Threads : LockWait(t)
    \/ \E t \in Threads : LockAcquire(t)
    \/ ClientSection(1)
    \/ DirectorySection(2)
    \/ ClientCollaborator(1)
    \/ VirtualLookupGetAttributes(2)

SpecLock == Init /\ [][NextLock]_vars

\* sync.Mutex hands the lock to every waiter in the end (starvation
\* mode); a thread that holds the lock goes on; collaborator calls return.
SpecLockFair ==
    /\ SpecLock
    /\ \A t \in Threads : SF_vars(LockAcquire(t))
    /\ WF_vars(ClientSection(1))
    /\ WF_vars(DirectorySection(2))
    /\ SF_vars(ClientCollaborator(1))
    /\ WF_vars(VirtualLookupGetAttributes(2))

----------------------------------------------------------------------------
(* SpecFilter: filterMissingChildren on its own, on every sequence of at   *)
(* most MaxFilterNodes nodes that FilterChildren may hand to its callback. *)

FilterDigests ==
    {Digest("sha256", hash, 1) : hash \in Hashes} \cup {Digest("md5", 1, 1)}

\* The nodes of a tree: leaves without a digest (symbolic links), files,
\* and directories with the digests of their closure or the error of
\* computing it.
FilterNodes(id) ==
    {FilterNode(id, "leaf", {}, OK)}
    \cup {FilterNode(id, "leaf", {d}, OK) : d \in FilterDigests}
    \cup {FilterNode(id, "directory", {d, e}, OK) :
            d \in FilterDigests, e \in {Digest("sha256", 1, 1)}}
    \cup {FilterNode(id, "directory", {}, err) : err \in {NotFound, Internal}}

\* The answer of the FindMissing call one step can make: a node of at most
\* RecommendedFindMissingDigestsCount digests fills the queue at most once.
FilterAnswers == [{1} -> Answers({Digest("sha256", hash, 1) : hash \in Hashes})]

FilterStart ==
    /\ filterRun.phase = "none"
    /\ \E fn \in DigestFunctions, failing \in {{}} \cup {{id} : id \in 1..MaxFilterNodes} :
          filterRun' = FilterRun("visiting", fn, failing, <<>>, InitialFilterState(<<>>))
    /\ UNCHANGED <<registryVars, trees, notified, calls, observed>>

\* FilterChildren hands one more node to the callback; the traversal
\* stops when the callback returns false.
FilterVisit ==
    /\ filterRun.phase = "visiting"
    /\ Len(filterRun.nodes) < MaxFilterNodes
    /\ \E node \in FilterNodes(Len(filterRun.nodes) + 1), answers \in FilterAnswers :
          \E st \in {FilterCallback([filterRun.st EXCEPT !.answers = answers],
                                    node, filterRun.fn, filterRun.failing)} :
             filterRun' = [filterRun EXCEPT
                              !.nodes = Append(@, node),
                              !.st = [st EXCEPT !.answers = <<>>],
                              !.phase = IF st.err # OK THEN "done" ELSE "visiting"]
    /\ UNCHANGED <<registryVars, trees, notified, calls, observed>>

\* Lines 232-244: FilterChildren has returned.
FilterFinish ==
    /\ filterRun.phase = "visiting"
    /\ \E answers \in FilterAnswers :
          filterRun' = [filterRun EXCEPT
                           !.st = [FilterFinalBatch(
                                       [filterRun.st EXCEPT !.answers = answers],
                                       filterRun.failing) EXCEPT !.answers = <<>>],
                           !.phase = "done"]
    /\ UNCHANGED <<registryVars, trees, notified, calls, observed>>

NextFilter == FilterStart \/ FilterVisit \/ FilterFinish

SpecFilter == Init /\ [][NextFilter]_vars

----------------------------------------------------------------------------
(* The build sessions (Spec).                                              *)

\* Thread t starts a call of op with this step.
Starts(t, op) == Free(t) /\ calls'[t].op = op /\ calls'[t] # calls[t]

\* Thread t executes, with this step, the locked section of a StartBuild
\* whose request passed validation.
ExecutesStartBuild(t) == Starts(t, "StartBuild") /\ calls'[t].pc = "filter"

\* The last call of thread t was this one, and it has returned.
Returned(t, op, result) ==
    calls[t].op = op /\ calls[t].pc = "done" /\ calls[t].result = result

\* C1: when StartBuild(ob, b1) has succeeded and the next call is a
\* StartBuild(ob, b2) with b2 # b1, then b1 has left the build-id map once
\* the second StartBuild has executed its locked section (so that calls
\* with b1 fail with FailedPrecondition).
C1_SecondStartBuildForceCloses ==
    [][(/\ Returned(1, "StartBuild", OK)
        /\ ExecutesStartBuild(1)
        /\ calls'[1].arg.outputBaseID = calls[1].arg.outputBaseID
        /\ calls'[1].arg.buildID # calls[1].arg.buildID)
       => calls[1].arg.buildID \notin DOMAIN buildIDs']_vars

\* C2: FinalizeBuild(b) returns success from every state; it removes b
\* from the build-id map and clears the build state of b's output path,
\* and nothing else; with b unknown it changes nothing.  After it b is
\* unknown, so a second FinalizeBuild(b) changes nothing.
C2_FinalizeBuildClosesExactlyThatSession ==
    [][Starts(1, "FinalizeBuild") =>
        LET b == calls'[1].arg
        IN /\ calls'[1].pc = "done" /\ calls'[1].result = OK
           /\ b \notin DOMAIN buildIDs'
           /\ \A c \in DOMAIN buildIDs : c # b =>
                 c \in DOMAIN buildIDs' /\ buildIDs'[c] = buildIDs[c]
           /\ DOMAIN buildIDs' \subseteq DOMAIN buildIDs
           /\ DOMAIN heap' = DOMAIN heap
           /\ \A x \in DOMAIN heap :
                 IF b \in DOMAIN buildIDs /\ x = buildIDs[b]
                 THEN /\ heap[x].buildState.id = b
                      /\ heap'[x] = [heap[x] EXCEPT !.buildState = NoBuildState]
                 ELSE heap'[x] = heap[x]
           /\ UNCHANGED <<changeID, outputBaseIDs, trees, notified>>]_vars

\* A FinalizeBuild has closed one of two sessions: its output path is
\* registered without a build, the other session is still active.
C2_Witness ==
    /\ Returned(1, "FinalizeBuild", OK)
    /\ \E x \in Range(outputBaseIDs) : heap[x].buildState = NoBuildState
    /\ \E c \in DOMAIN buildIDs : c # calls[1].arg

\* C3: a BatchCreate or BatchStat with a build id that is not in the
\* build-id map returns FailedPrecondition at once and changes neither
\* the registry nor any tree.
C3_UnknownBuildIdFailedPrecondition ==
    [][\A t \in Threads :
        (/\ Starts(t, "BatchCreate") \/ Starts(t, "BatchStat")
         /\ calls'[t].arg.buildID \notin DOMAIN buildIDs)
        => /\ calls'[t].pc = "done"
           /\ calls'[t].result = FailedPrecondition
           /\ UNCHANGED <<registryVars, trees>>]_vars

\* A BatchCreate was refused for its build id while another build is
\* active on an output path that holds files.
C3_Witness ==
    /\ Returned(1, "BatchCreate", FailedPrecondition)
    /\ \E ob \in DOMAIN outputBaseIDs :
          /\ heap[outputBaseIDs[ob]].buildState # NoBuildState
          /\ trees[outputBaseIDs[ob]].nodes # NoNodes

\* C4: when StartBuild(ob, b) has returned success, ob is registered and b
\* is the active session of ob's output path, the one that BatchCreate(b)
\* will change.
C4_StartBuildOpensSessionOnItsOutputBase ==
    Returned(1, "StartBuild", OK) =>
        LET ob == calls[1].arg.outputBaseID
            b == calls[1].arg.buildID
        IN /\ ob \in DOMAIN outputBaseIDs
           /\ b \in DOMAIN buildIDs
           /\ buildIDs[b] = outputBaseIDs[ob]
           /\ heap[outputBaseIDs[ob]].buildState.id = b

\* C5: a BatchCreate whose request holds a directory with a tree digest
\* of more than maximumTreeSizeBytes fails with InvalidArgument and leaves
\* every tree as it was.
C5_OversizedDirectoryCreatesNothing ==
    [][\A t \in Threads :
        (/\ At(t, "BatchCreate", "create")
         /\ calls'[t].pc = "done"
         /\ \E i \in DOMAIN calls[t].arg.request.directories :
               calls[t].arg.request.directories[i].digest.size > maximumTreeSizeBytes)
        => calls'[t].result = InvalidArgument /\ trees' = trees]_vars

\* The output path states on the list that carry this output base ID.
OnRing(h, ob) ==
    {x \in Range(RingFrom(h, h[0].next, Cardinality(DOMAIN h))) : h[x].outputBaseID = ob}

\* C8: a Clean of a registered output base, with no other call running,
\* that gets past RemoveAllChildren takes the output base out of the map
\* and off the list, removes the build id of its session from the
\* build-id map and clears the session, then calls NotifyRemoval once and
\* returns success.
C8_CleanDetachesAndNotifies ==
    [][/\ (At(1, "Clean", "commit") /\ calls'[1] # calls[1]) =>
            LET ob == calls[1].arg
                state == calls[1].loc
            IN /\ ob \notin DOMAIN outputBaseIDs'
               /\ OnRing(heap', ob) = {}
               /\ state \notin Range(outputBaseIDs') \cup Range(buildIDs')
               /\ heap[state].buildState # NoBuildState =>
                     heap[state].buildState.id \notin DOMAIN buildIDs'
               /\ heap'[state].buildState = NoBuildState
               /\ calls'[1].pc = "notify"
       /\ (At(1, "Clean", "notify") /\ calls'[1] # calls[1]) =>
            /\ notified' = [notified EXCEPT ![calls[1].arg] = @ + 1]
            /\ calls'[1].pc = "done" /\ calls'[1].result = OK
            /\ UNCHANGED <<registryVars, trees>>]_vars

\* A Clean has returned success after NotifyRemoval: the state it removed
\* is off the list, and another build is still active.
C8_Witness ==
    /\ Returned(1, "Clean", OK)
    /\ notified[calls[1].arg] = 1
    /\ calls[1].arg \notin DOMAIN outputBaseIDs
    /\ \E x \in Objects \ Range(Ring) : heap[x].outputBaseID = calls[1].arg
    /\ buildIDs # <<>>

----------------------------------------------------------------------------
(* Clean against concurrent calls (SpecConcurrent).                        *)

\* The output path states that were taken off the list.
Detached == Objects \ Range(Ring)

----------------------------------------------------------------------------
(* The cookies of the directory listing (SpecEnum).                        *)

\* C6: the cookies of the output paths on the list increase strictly from
\* head to tail, and no two output path states ever created, removed ones
\* included, have the same cookie: a state created later has a larger one.
C6_CookiesIncreaseAndAreNeverReused ==
    /\ \A i, j \in DOMAIN Ring : i < j => heap[Ring[i]].cookie < heap[Ring[j]].cookie
    /\ \A x, y \in Objects : x < y => heap[x].cookie < heap[y].cookie

\* An output path was removed and another created after it, next to one
\* that is older than both.
C6_Witness ==
    /\ Len(Ring) = 2
    /\ \E x \in Detached : Ring[1] < x /\ x < Ring[2]

\* The last call was a VirtualReadDir from the cookie the consumer holds.
Resumed ==
    /\ Returned(1, "VirtualReadDir", OK)
    /\ observed.made
    /\ calls[1].arg.firstCookie = observed.nextCookie

\* The position of x in a sequence without duplicates that holds it.
IndexOf(seq, x) == CHOOSE i \in DOMAIN seq : seq[i] = x

\* C7: a VirtualReadDir from the cookie that an earlier call reported with
\* entry e reports no entry twice, none that was at or before e, and only
\* registered ones; unless its reporter is full it reports every entry
\* that was after e and is still registered; the entries that were after
\* e come in their old order, and those created since come after them.
C7_ResumedListing ==
    Resumed =>
        LET reported == calls[1].response
            children == {reported[i].child : i \in DOMAIN reported}
            older == Range(observed.later)
        IN /\ \A i, j \in DOMAIN reported :
                 i # j => reported[i].child # reported[j].child
           /\ children \cap observed.upTo = {}
           /\ children \subseteq Range(outputBaseIDs)
           /\ \/ Len(reported) = calls[1].arg.capacity
              \/ older \cap Range(outputBaseIDs) \subseteq children
           /\ \A i, j \in DOMAIN reported :
                 (i < j /\ reported[j].child \in older) =>
                    /\ reported[i].child \in older
                    /\ IndexOf(observed.later, reported[i].child)
                          < IndexOf(observed.later, reported[j].child)

\* The consumer resumes after an entry that has been removed since: the
\* listing holds an entry that was behind it, then one created since.
C7_Witness ==
    /\ Resumed
    /\ observed.entry \notin Range(outputBaseIDs)
    /\ Len(calls[1].response) = 2
    /\ calls[1].response[1].child \in Range(observed.later)
    /\ calls[1].response[2].child \notin Range(observed.later)

----------------------------------------------------------------------------
(* The FindMissing calls of the filter (SpecFilter).                       *)

\* The number of digests the nodes carry, node by node.
RECURSIVE DigestOccurrences(_)
DigestOccurrences(nodes) ==
    IF nodes = <<>> THEN 0
    ELSE Cardinality(Head(nodes).digests) + DigestOccurrences(Tail(nodes))

DistinctDigests(nodes) == UNION {nodes[i].digests : i \in DOMAIN nodes}

SharesADigest(nodes) ==
    \E i, j \in DOMAIN nodes : i # j /\ nodes[i].digests \cap nodes[j].digests # {}

\* A run that has returned without error on nodes whose digests all use
\* the digest function of the build and whose closures were obtained.
FilterCompleted ==
    /\ filterRun.phase = "done"
    /\ filterRun.st.err = OK
    /\ \A i \in DOMAIN filterRun.nodes :
          /\ filterRun.nodes[i].closure = OK
          /\ \A d \in filterRun.nodes[i].digests : d.fn = filterRun.fn

\* C10, as claimed: the run makes exactly ceil(N/T) FindMissing calls for
\* the N digests of the nodes, each of at most T digests.
C10_CeilOfDigestsOverThreshold ==
    FilterCompleted =>
        /\ Len(filterRun.st.calls) =
              CeilDiv(DigestOccurrences(filterRun.nodes),
                      RecommendedFindMissingDigestsCount)
        /\ \A i \in DOMAIN filterRun.st.calls :
              Cardinality(filterRun.st.calls[i]) <= RecommendedFindMissingDigestsCount

\* C10: the run makes at most ceil(N/T) FindMissing calls for the N
\* digests of the nodes and at least ceil(D/T) for the D distinct ones
\* among them; every call but the last holds exactly T digests, the last
\* between one and T; when no digest is carried by two nodes the calls are
\* exactly ceil(N/T).
C10_FindMissingCalls ==
    FilterCompleted =>
        LET T == RecommendedFindMissingDigestsCount
            made == filterRun.st.calls
        IN /\ Len(made) <= CeilDiv(DigestOccurrences(filterRun.nodes), T)
           /\ Len(made) >= CeilDiv(Cardinality(DistinctDigests(filterRun.nodes)), T)
           /\ \A i \in DOMAIN made :
                 /\ Cardinality(made[i]) >= 1
                 /\ Cardinality(made[i]) <= T
                 /\ i < Len(made) => Cardinality(made[i]) = T
           /\ ~SharesADigest(filterRun.nodes) =>
                 Len(made) = CeilDiv(DigestOccurrences(filterRun.nodes), T)

\* A completed run on nodes that share a digest, with a full batch and a
\* final one, made fewer calls than ceil(N/T).
C10_Witness ==
    /\ FilterCompleted
    /\ SharesADigest(filterRun.nodes)
    /\ Len(filterRun.st.calls) = 2
    /\ Len(filterRun.st.calls) <
          CeilDiv(DigestOccurrences(filterRun.nodes),
                  RecommendedFindMissingDigestsCount)

----------------------------------------------------------------------------
(* What the filter removes (SpecFilter).                                   *)

\* The nodes queued under a digest that the FindMissing call of their
\* batch reported missing.
ReportedMissingInTheirBatch(batches) ==
    {id \in 1..MaxFilterNodes :
        \E i \in DOMAIN batches :
            \E d \in batches[i].missing : id \in Range(batches[i].queue[d])}

\* The digests that some FindMissing call of the run reported missing.
ReportedMissing(batches) == UNION {batches[i].missing : i \in DOMAIN batches}

\* The nodes that have a digest which some call reported missing.
NodesWithAMissingDigest(run) ==
    {run.nodes[i].id : i \in {j \in DOMAIN run.nodes :
        run.nodes[j].digests \cap ReportedMissing(run.st.batches) # {}}}

\* No digest was reported missing by one call and present by another.
AnswersAgree(batches) ==
    \A i, j \in DOMAIN batches :
        batches[i].missing \cap DOMAIN batches[j].queue \subseteq batches[j].missing

----------------------------------------------------------------------------
(* What a successful StartBuild rests on (SpecTree).                       *)

\* C12: when StartBuild has returned success, the filter has run over the
\* tree of the output path to its end: the nodes it visited are in the
\* tree iff no removeFunc of theirs was called, and every digest of a
\* node it left uses the digest function of the request and was queried
\* by a FindMissing call that did not report it missing.
C12_SuccessfulStartBuildHasFiltered ==
    \A t \in Threads :
        Returned(t, "StartBuild", OK) =>
            LET run == calls[t].response
                batches == run.st.batches
                tree == trees[calls[t].loc]
            IN /\ run.phase = "done"
               /\ run.st.queue = NoQueue \/ batches # <<>>
               /\ \A n \in DOMAIN run.nodes :
                     LET node == run.nodes[n]
                     IN /\ node.id \in DOMAIN tree.nodes <=> node.id \notin run.st.removed
                        /\ node.id \notin run.st.removed =>
                              \A d \in node.digests :
                                 /\ d.fn = calls[t].arg.digestFunction
                                 /\ \E i \in DOMAIN batches :
                                       /\ d \in DOMAIN batches[i].queue
                                       /\ node.id \in Range(batches[i].queue[d])
                                       /\ d \notin batches[i].missing

\* A StartBuild has returned success on a tree of a previous build: the
\* filter removed a node whose digest was missing and left one whose
\* digest was present.
C12_Witness ==
    /\ Returned(1, "StartBuild", OK)
    /\ calls[1].response.st.removed # {}
    /\ \E n \in DOMAIN calls[1].response.nodes :
          /\ calls[1].response.nodes[n].digests # {}
          /\ calls[1].response.nodes[n].id \notin calls[1].response.st.removed


-----------------------------------------------------------------------------
(* BatchStat: the shape of the response.                                   *)

\* Thread t has returned from a BatchStat whose build id was known.
StatCompleted(t) ==
    /\ calls[t].op = "BatchStat" /\ calls[t].pc = "done"
    /\ calls[t].result # FailedPrecondition

\* The walker of the completed BatchStat of thread t.
CompletedStatWalker(t) ==
    StatWalker(trees[calls[t].loc.state], calls[t].arg.request.followSymlinks,
               IF calls[t].arg.request.includeFileDigest
               THEN calls[t].loc.buildState.digestFunction ELSE Nil)

\* path.Resolve of one path on its own: the final walker state.
Resolution(w, statPath) ==
    Then(StatOnScope(InitialStat, statPath), LAMBDA s :
        StatComponents(w, s.st, s.comps))

\* C13: a successful BatchStat holds exactly one result per requested path,
\* in request order, the result of a path whose resolution yields ENOENT
\* being empty at its own position; when the resolution of some path fails
\* with another error, the call fails and carries no response at all.
C13_OneResultPerPathInOrder ==
    \A t \in Threads : StatCompleted(t) =>
        LET paths == calls[t].arg.request.paths
            each == [i \in DOMAIN paths |->
                        Resolution(CompletedStatWalker(t), paths[i])]
        IN IF \A i \in DOMAIN paths : each[i].err \in {OK, ENOENT}
           THEN /\ calls[t].result = OK
                /\ Len(calls[t].response) = Len(paths)
                /\ \A i \in DOMAIN paths :
                      /\ each[i].err = ENOENT
                            <=> calls[t].response[i].type = "none"
                      /\ each[i].err = OK =>
                            calls[t].response[i].type = each[i].status.type
           ELSE /\ calls[t].result \notin {OK, ENOENT}
                /\ calls[t].response = <<>>

\* A successful BatchStat whose first path is a file and whose second path
\* does not exist: the empty result stands at the second position.
C13_Witness ==
    \E t \in Threads :
        /\ StatCompleted(t) /\ calls[t].result = OK
        /\ Len(calls[t].response) = 2
        /\ calls[t].response[1].type = "file"
        /\ calls[t].response[2].type = "none"

\* A BatchStat that failed on its second path, the first one resolving.
C13_FailedOnLaterPath ==
    \E t \in Threads :
        /\ StatCompleted(t) /\ calls[t].result = "ENOTDIR"
        /\ Resolution(CompletedStatWalker(t),
                      calls[t].arg.request.paths[1]).err = OK


-----------------------------------------------------------------------------
(* BatchStat: paths that leave the output path.                            *)

\* The path with its first followed symbolic link replaced by the link's
\* target: a link in the middle of a path is always followed, one at the
\* end only on request.
Substituted(tree, statPath, followSymlinks) ==
    LET links == {k \in 1..Len(statPath) :
                     /\ SubSeq(statPath, 1, k) \in DOMAIN tree.nodes
                     /\ tree.nodes[SubSeq(statPath, 1, k)].kind = "symlink"
                     /\ (k < Len(statPath) \/ followSymlinks)}
    IN IF links = {} THEN statPath
       ELSE LET k == CHOOSE k \in links : \A j \in links : k <= j
                target == tree.nodes[SubSeq(statPath, 1, k)].target
                rest == SubSeq(statPath, k + 1, Len(statPath))
            IN IF target # <<>> /\ Head(target) = "/"
               THEN target \o rest
               ELSE SubSeq(statPath, 1, k - 1) \o target \o rest

\* Where a path of names and ".." leads when it moves up above the root
\* through directories only: the set holding the continuation from the
\* root on, empty when the path stays inside or meets something else.
RECURSIVE ContinuationOutside(_, _, _)
ContinuationOutside(tree, stack, comps) ==
    IF comps = <<>> THEN {}
    ELSE IF Head(comps) = "." THEN ContinuationOutside(tree, stack, Tail(comps))
    ELSE IF Head(comps) = ".."
    THEN IF stack = <<>> THEN {comps}
         ELSE ContinuationOutside(tree, Front(stack), Tail(comps))
    ELSE IF IsDirectoryAt(tree, Append(stack, Head(comps)))
    THEN ContinuationOutside(tree, Append(stack, Head(comps)), Tail(comps))
    ELSE {}

\* The continuations of a requested path that leaves the output path: by
\* moving up above the root, or through a link to an absolute path that is
\* not below the output path.
Continuations(tree, statPath, followSymlinks) ==
    LET q == Substituted(tree, statPath, followSymlinks)
    IN IF q # <<>> /\ Head(q) = "/"
       THEN IF Len(q) >= 2 /\ q[2] = "OUT" THEN {} ELSE {q}
       ELSE ContinuationOutside(tree, <<>>, q)

\* C14: in a completed BatchStat, a requested path that leaves the output
\* path does not fail the call (a failed call has another path whose
\* resolution fails), and in a successful call its result is of type
\* external and carries the continuation path.
C14_LeavingPathIsExternal ==
    \A t \in Threads : StatCompleted(t) =>
        LET request == calls[t].arg.request
            tree == trees[calls[t].loc.state]
        IN \A i \in DOMAIN request.paths :
           \A next \in Continuations(tree, request.paths[i], request.followSymlinks) :
              IF calls[t].result = OK
              THEN calls[t].response[i] = [type |-> "external", nextPath |-> next]
              ELSE \E j \in DOMAIN request.paths \ {i} :
                      Resolution(CompletedStatWalker(t), request.paths[j]).err
                          \notin {OK, ENOENT}

\* A successful BatchStat with a path that moves up above the root next to
\* one that stays inside.
C14_Witness ==
    \E t \in Threads :
        /\ StatCompleted(t) /\ calls[t].result = OK
        /\ calls[t].arg.request.paths[2] = <<"..", "x">>
        /\ calls[t].response[1].type = "symlink"
        /\ calls[t].response[2] = [type |-> "external", nextPath |-> <<"..", "x">>]

\* A successful BatchStat that left the output path through a symbolic
\* link in a directory, whose relative target moves up above the root.
C14_ThroughRelativeLink ==
    \E t \in Threads :
        /\ StatCompleted(t) /\ calls[t].result = OK
        /\ calls[t].arg.request.paths[2] = <<"a", "l">>
        /\ calls[t].response[2] = [type |-> "external", nextPath |-> <<"..", "x">>]

\* A successful BatchStat that left the output path through a symbolic
\* link to an absolute path outside it.
C14_ThroughAbsoluteLink ==
    \E t \in Threads :
        /\ StatCompleted(t) /\ calls[t].result = OK
        /\ calls[t].arg.request.paths[1] = <<"e", "y">>
        /\ calls[t].response[1] =
              [type |-> "external", nextPath |-> <<"/", "ext", "y">>]


-----------------------------------------------------------------------------
(* The change counter (SpecOperations).                                    *)

\* Thread t takes, with this step, a step of a call of op.
Acts(t, op) == calls'[t] # calls[t] /\ calls'[t].op = op

\* The step creates an output path, or detaches one.
CreatesOutputPath == DOMAIN outputBaseIDs' \ DOMAIN outputBaseIDs # {}

RemovesOutputPath == DOMAIN outputBaseIDs \ DOMAIN outputBaseIDs' # {}

\* C15: the change counter never decreases; a step that creates an output
\* path and a step that detaches one increase it by exactly one, and every
\* other step leaves it unchanged: in particular the steps of a StartBuild
\* for a registered output base, of a Clean of an unknown one, of
\* BatchCreate, BatchStat and FinalizeBuild, and of the directory
\* operations.
C15_ChangeCounter ==
    [][/\ changeID' >= changeID
       /\ changeID' = IF CreatesOutputPath \/ RemovesOutputPath
                      THEN changeID + 1 ELSE changeID
       /\ \A t \in Threads :
             /\ Acts(t, "StartBuild")
                   /\ (Starts(t, "StartBuild") =>
                          calls'[t].arg.outputBaseID \in DOMAIN outputBaseIDs)
                   => changeID' = changeID
             /\ Acts(t, "Clean") /\ calls'[t].arg \notin DOMAIN outputBaseIDs
                   => changeID' = changeID
             /\ \A op \in {"BatchCreate", "BatchStat", "FinalizeBuild",
                           "VirtualGetAttributes", "VirtualLookup",
                           "VirtualOpenChild", "VirtualReadDir"} :
                   Acts(t, op) => changeID' = changeID]_vars

\* Two output paths were created and one of them was detached by the Clean
\* that has just returned.
C15_Witness ==
    /\ changeID = 3
    /\ Cardinality(DOMAIN outputBaseIDs) = 1
    /\ \E t \in Threads : Returned(t, "Clean", OK) /\ notified[calls[t].arg] > 0


-----------------------------------------------------------------------------
(* Clean of an output base without output path state (Spec).               *)

\* C16: a Clean of a valid output base that is not in the output-base map
\* goes on to the cleanup of the output path factory without touching the
\* registry, and the step that invokes the factory, for this output base
\* and once, ends the call with the factory's outcome (success or its
\* error) and leaves both maps, the list and the change counter unchanged.
C16_CleanOfUnknownOutputBase ==
    [][\A t \in Threads :
          /\ Starts(t, "Clean") /\ NewComponentOk(calls'[t].arg)
                /\ calls'[t].arg \notin DOMAIN outputBaseIDs
                => /\ calls'[t].pc = "factoryClean"
                   /\ calls'[t].response = Nil
                   /\ UNCHANGED registryVars
          /\ At(t, "Clean", "factoryClean") /\ calls'[t] # calls[t]
                => /\ calls'[t].op = "Clean" /\ calls'[t].pc = "done"
                   /\ Len(calls'[t].response) = 1
                   /\ calls'[t].response[1].outputBaseID = calls[t].arg
                   /\ calls'[t].result = calls'[t].response[1].err
                   /\ UNCHANGED registryVars
                   /\ Ring' = Ring]_vars

\* A Clean of an unknown output base has returned the error of the
\* factory, while another output base is registered.
C16_Witness ==
    \E t \in Threads :
        /\ calls[t].op = "Clean" /\ calls[t].pc = "done"
        /\ calls[t].response # Nil
        /\ calls[t].response[1].err = Internal
        /\ calls[t].result = Internal
        /\ outputBaseIDs # <<>>

\* A Clean of an unknown output base has returned success.
C16_FactorySucceeded ==
    \E t \in Threads :
        /\ calls[t].op = "Clean" /\ calls[t].pc = "done"
        /\ calls[t].response # Nil
        /\ calls[t].response[1].err = OK
        /\ calls[t].result = OK


-----------------------------------------------------------------------------
(* StartBuild on a registered output base (Spec).                          *)

\* C17: the locked section of a StartBuild for an output base that is
\* registered keeps its output path state: the same state under the same
\* key, with its cookie, at its place on the list; no state and no tree is
\* created, no tree is touched and the change counter keeps its value.
\* Unless the build id is in use already, the build is attached to this
\* very state.  The filter that follows only removes nodes, so the build
\* starts from what the previous one left.
C17_RegisteredOutputBaseIsReused ==
    [][\A t \in Threads :
          /\ ExecutesStartBuild(t)
                /\ calls'[t].arg.outputBaseID \in DOMAIN outputBaseIDs
                => LET id == calls'[t].arg.outputBaseID
                       state == outputBaseIDs[id]
                   IN /\ outputBaseIDs' = outputBaseIDs
                      /\ heap'[state].cookie = heap[state].cookie
                      /\ heap'[state].outputBaseID = id
                      /\ Ring' = Ring
                      /\ DOMAIN heap' = DOMAIN heap
                      /\ trees' = trees
                      /\ changeID' = changeID
                      /\ ~BuildIDIsKnown(calls'[t].arg.buildID) =>
                            /\ calls'[t].loc = state
                            /\ buildIDs'[calls'[t].arg.buildID] = state
          /\ At(t, "StartBuild", "filter") /\ calls'[t] # calls[t]
                => /\ UNCHANGED registryVars
                   /\ DOMAIN trees' = DOMAIN trees
                   /\ \A x \in DOMAIN trees :
                         /\ DOMAIN trees'[x].nodes \subseteq DOMAIN trees[x].nodes
                         /\ \A p \in DOMAIN trees'[x].nodes :
                               trees'[x].nodes[p] = trees[x].nodes[p]]_vars

\* A StartBuild has completed on the first of two registered output
\* bases, whose tree still holds what an earlier build created.
C17_Witness ==
    \E t \in Threads :
        /\ Returned(t, "StartBuild", OK)
        /\ Len(Ring) = 2 /\ Ring[1] = calls[t].loc
        /\ outputBaseIDs[calls[t].arg.outputBaseID] = calls[t].loc
        /\ heap[calls[t].loc].cookie = 0 /\ changeID = 2
        /\ trees[calls[t].loc].nodes # NoNodes


-----------------------------------------------------------------------------
(* BatchCreate: paths that move up above the root (SpecTree).              *)

\* Whether a path of names, "." and "..", followed from a directory depth
\* levels below the root, moves up above the root.
RECURSIVE MovesAboveRoot(_, _)
MovesAboveRoot(depth, comps) ==
    IF comps = <<>> THEN FALSE
    ELSE IF Head(comps) = "." THEN MovesAboveRoot(depth, Tail(comps))
    ELSE IF Head(comps) = ".."
    THEN depth = 0 \/ MovesAboveRoot(depth - 1, Tail(comps))
    ELSE MovesAboveRoot(depth + 1, Tail(comps))

\* The depth such a path ends at, when it stays below the root.
RECURSIVE DepthAfter(_, _)
DepthAfter(depth, comps) ==
    IF comps = <<>> THEN depth
    ELSE IF Head(comps) = "." THEN DepthAfter(depth, Tail(comps))
    ELSE IF Head(comps) = ".." THEN DepthAfter(depth - 1, Tail(comps))
    ELSE DepthAfter(depth + 1, Tail(comps))

EntryPaths(request) ==
    {request.files[i].path : i \in DOMAIN request.files}
    \cup {request.directories[i].path : i \in DOMAIN request.directories}
    \cup {request.symlinks[i].path : i \in DOMAIN request.symlinks}

\* Every node lies below the root: its path consists of filenames, and
\* its parent is the root or a directory of the tree.
BelowRoot(tree) ==
    \A p \in DOMAIN tree.nodes :
        /\ p # <<>>
        /\ \A i \in DOMAIN p : NewComponentOk(p[i])
        /\ IsDirectoryAt(tree, Front(p))

\* C18: a BatchCreate whose path prefix moves up above the root of the
\* output path fails with InvalidArgument and changes nothing; one with an
\* entry path that moves up above the root, from the prefix directory,
\* fails with InvalidArgument; and whatever the paths are, a BatchCreate
\* changes the tree of its own output path only, and every node of that
\* tree lies below its root.
C18_NothingCreatedAboveRoot ==
    [][\A t \in Threads :
          At(t, "BatchCreate", "create") /\ calls'[t].pc = "done" =>
             LET request == calls[t].arg.request
                 state == calls[t].loc.state
             IN /\ MovesAboveRoot(0, request.pathPrefix) =>
                      calls'[t].result = InvalidArgument /\ trees' = trees
                /\ (/\ ~MovesAboveRoot(0, request.pathPrefix)
                    /\ \E path \in EntryPaths(request) :
                          MovesAboveRoot(DepthAfter(0, request.pathPrefix), path))
                      => calls'[t].result = InvalidArgument
                /\ \A x \in DOMAIN trees \ {state} : trees'[x] = trees[x]
                /\ DOMAIN trees' = DOMAIN trees
                /\ BelowRoot(trees'[state])]_vars

\* A BatchCreate was rejected for its second file, whose path moves up
\* above the root; the first one, whose path moves up above the path
\* prefix and comes back, was created.
C18_Witness ==
    \E t \in Threads :
        /\ Returned(t, "BatchCreate", InvalidArgument)
        /\ calls[t].arg.request.pathPrefix = <<"a">>
        /\ \E i \in DOMAIN calls[t].arg.request.files :
              calls[t].arg.request.files[i].path = <<"..", "..", "f">>
        /\ <<"a", "f">> \in DOMAIN trees[calls[t].loc.state].nodes
        /\ <<"a", "g">> \notin DOMAIN trees[calls[t].loc.state].nodes
        /\ <<"f">> \notin DOMAIN trees[calls[t].loc.state].nodes

\* A BatchCreate was rejected for a path prefix that moves up above the
\* root.
C18_PrefixRejected ==
    \E t \in Threads :
        /\ Returned(t, "BatchCreate", InvalidArgument)
        /\ calls[t].arg.request.pathPrefix = <<"..">>


-----------------------------------------------------------------------------
(* VirtualLookup (SpecOperations).                                         *)

\* The last call of thread t was a VirtualLookup, and it has returned.
LookedUp(t) == calls[t].op = "VirtualLookup" /\ calls[t].pc = "done"

\* C19: a VirtualLookup that has returned, with no other call running, has
\* returned the root directory of the output path state registered under
\* the name when the name is in the output-base map, whether that state
\* has a build or not, and ENOENT when it is not.
C19_LookupFollowsOutputBaseMap ==
    \A t \in Threads : LookedUp(t) =>
        IF calls[t].arg \in DOMAIN outputBaseIDs
        THEN calls[t].result = OK /\ calls[t].response = outputBaseIDs[calls[t].arg]
        ELSE calls[t].result = ENOENT /\ calls[t].response = Nil

\* A lookup has found an output path whose build was finalized.
C19_Witness ==
    \E t \in Threads :
        /\ LookedUp(t) /\ calls[t].result = OK
        /\ heap[calls[t].response].buildState = NoBuildState
        /\ buildIDs = <<>>

\* A lookup has failed for an output base that a Clean has removed.
C19_NotFoundAfterClean ==
    \E t \in Threads :
        /\ LookedUp(t) /\ calls[t].result = ENOENT
        /\ notified[calls[t].arg] > 0

\* A lookup has found an output path with a running build.
C19_FoundInBuild ==
    \E t \in Threads :
        /\ LookedUp(t) /\ calls[t].result = OK
        /\ heap[calls[t].response].buildState # NoBuildState


-----------------------------------------------------------------------------
(* The two maps and the build states (SpecConcurrent).                     *)

\* C20: in every state (the lock is free between the steps), a build id b
\* is mapped to the output path state s exactly when s is registered in
\* the output-base map and has a build state with id b; hence a registered
\* state has at most one build id, and no build id refers to a detached
\* state.
C20_BuildIDsAgreeWithBuildStates ==
    /\ \A b \in DOMAIN buildIDs :
          /\ \E id \in DOMAIN outputBaseIDs : outputBaseIDs[id] = buildIDs[b]
          /\ heap[buildIDs[b]].buildState # NoBuildState
          /\ heap[buildIDs[b]].buildState.id = b
    /\ \A id \in DOMAIN outputBaseIDs :
          heap[outputBaseIDs[id]].buildState # NoBuildState =>
             /\ heap[outputBaseIDs[id]].buildState.id \in DOMAIN buildIDs
             /\ buildIDs[heap[outputBaseIDs[id]].buildState.id] = outputBaseIDs[id]
    /\ \A x \in Objects :
          (\A id \in DOMAIN outputBaseIDs : outputBaseIDs[id] # x) =>
             heap[x].buildState = NoBuildState

\* A build runs on an output path while a detached state exists, and a
\* Clean of one thread is between its lookup and its commit.
C20_Witness ==
    /\ buildIDs # <<>>
    /\ \E x \in Objects : \A id \in DOMAIN outputBaseIDs : outputBaseIDs[id] # x
    /\ \E t \in Threads : At(t, "Clean", "commit")


-----------------------------------------------------------------------------
(* The lock (SpecLock).                                                    *)

\* The operations of an output path's root directory that can call back
\* into the directory.
CallsBack == {"RemoveAllChildren", "VirtualGetAttributes"}

\* C21: no thread holds the lock while RemoveAllChildren or
\* VirtualGetAttributes of an output path's root directory runs for it:
\* not where these are steps of their own (Clean, VirtualLookup), and not
\* inside a locked section.
C21_NoCallbackUnderLock ==
    \A t \in Threads :
        /\ (At(t, "Clean", "removeAllChildren")
              \/ At(t, "VirtualLookup", "getAttributes")) => ~HoldsLock(t)
        /\ calls[t].underLock \cap CallsBack = {}

\* C22: Clean does not hold the lock while RemoveAllChildren or
\* NotifyRemoval runs, and every thread that waits for the lock gets it.
C22_CleanNeverBlocksTheLock ==
    /\ [](\A t \in Threads :
             At(t, "Clean", "removeAllChildren") \/ At(t, "Clean", "notify")
                => ~HoldsLock(t))
    /\ \A t \in Threads : WaitsForLock(t) ~> HoldsLock(t)

\* The file system holds the lock for an operation on the directory while
\* NotifyRemoval of a Clean runs.
C22_Witness ==
    /\ At(1, "Clean", "notify")
    /\ calls[2].pc = "locked"

\* The file system waits for the lock while the Clean holds it to commit.
C22_WaitsForCommit ==
    /\ At(1, "Clean", "commitLocked")
    /\ calls[2].pc = "waiting"


-----------------------------------------------------------------------------
(* Batch calls in flight (SpecConcurrent).                                 *)

\* Two call records are the same (fields of different operations are not
\* compared with each other).
SameCall(a, b) ==
    /\ a.op = b.op /\ a.pc = b.pc /\ a.result = b.result
    /\ a.arg = b.arg /\ a.loc = b.loc /\ a.response = b.response

\* Thread t has validated the build id of a batch call and has not yet
\* worked on the tree.
InFlight(t) == At(t, "BatchCreate", "create") \/ At(t, "BatchStat", "stat")

\* C23: a BatchCreate or BatchStat passes validation exactly when its
\* build id is in the build-id map, and then holds the output path state
\* of that build id.  From there on the session does not matter: no step
\* of another thread touches the call in flight, and its tree operations
\* are carried out on the tree of the state it holds and are never refused
\* for the session (a BatchCreate creates its file unless the root
\* directory was removed, a BatchStat answers every path), without any
\* change of the registry.
C23_ValidationIsTheOnlySynchronization ==
    [][\A t \in Threads :
          /\ (/\ Free(t) /\ calls'[t].op \in {"BatchCreate", "BatchStat"}
              /\ ~SameCall(calls'[t], calls[t])) =>
                IF calls'[t].arg.buildID \in DOMAIN buildIDs
                THEN /\ calls'[t].pc \in {"create", "stat"}
                     /\ calls'[t].loc.state = buildIDs[calls'[t].arg.buildID]
                ELSE /\ calls'[t].pc = "done"
                     /\ calls'[t].result = FailedPrecondition
          /\ InFlight(t) =>
                \/ SameCall(calls'[t], calls[t])
                \/ /\ calls'[t].pc = "done"
                   /\ calls'[t].result # FailedPrecondition
                   /\ UNCHANGED registryVars
                   /\ \A x \in DOMAIN trees \ {calls[t].loc.state} :
                         trees'[x] = trees[x]
                   /\ At(t, "BatchCreate", "create") =>
                         IF trees[calls[t].loc.state].deleted
                         THEN calls'[t].result = ENOENT
                         ELSE /\ calls'[t].result = OK
                              /\ \A i \in DOMAIN calls[t].arg.request.files :
                                    calls[t].arg.request.pathPrefix
                                       \o calls[t].arg.request.files[i].path
                                    \in DOMAIN trees'[calls[t].loc.state].nodes
                   /\ At(t, "BatchStat", "stat") =>
                         /\ calls'[t].result = OK
                         /\ Len(calls'[t].response) = Len(calls[t].arg.request.paths)]_vars

\* A BatchCreate in flight whose build id has left the build-id map, on a
\* root directory that was not removed and does not hold the file yet.
C23_Witness ==
    \E t \in Threads :
        /\ At(t, "BatchCreate", "create")
        /\ calls[t].arg.buildID \notin DOMAIN buildIDs
        /\ ~trees[calls[t].loc.state].deleted
        /\ trees[calls[t].loc.state].nodes = NoNodes
        /\ calls[t].loc.state \in {outputBaseIDs[id] : id \in DOMAIN outputBaseIDs}

\* A BatchCreate in flight on an output path whose build was superseded.
C23_Superseded ==
    \E t \in Threads :
        /\ At(t, "BatchCreate", "create")
        /\ heap[calls[t].loc.state].buildState # NoBuildState
        /\ heap[calls[t].loc.state].buildState.id # calls[t].arg.buildID

\* A BatchCreate in flight on an output path that a Clean has detached.
C23_Detached ==
    \E t \in Threads :
        /\ At(t, "BatchCreate", "create")
        /\ trees[calls[t].loc.state].deleted
        /\ \A id \in DOMAIN outputBaseIDs : outputBaseIDs[id] # calls[t].loc.state


-----------------------------------------------------------------------------
(* Concurrent Cleans (SpecConcurrent).                                     *)

\* The output path states on the list.
Listed == {Ring[i] : i \in 1..Len(Ring)}

\* C24: the commit of a Clean detaches the state it has read when that
\* state is still the one registered for the output base, counting it in
\* the change counter, and changes nothing of the registry otherwise; no
\* other state leaves the list or loses its build by it.  So every state
\* is counted once when created and once when detached.
C24_StaleCleanCommitsNothing ==
    [][/\ \A t \in Threads :
             At(t, "Clean", "commit") /\ calls'[t].pc = "notify" =>
                LET state == calls[t].loc
                    id == calls[t].arg
                IN /\ IF id \in DOMAIN outputBaseIDs /\ outputBaseIDs[id] = state
                      THEN /\ Listed' = Listed \ {state}
                           /\ id \notin DOMAIN outputBaseIDs'
                           /\ changeID' = changeID + 1
                      ELSE UNCHANGED registryVars
                   /\ \A x \in Listed \ {state} :
                         /\ x \in Listed'
                         /\ heap'[x].buildState = heap[x].buildState
                         /\ \A id2 \in DOMAIN outputBaseIDs :
                               outputBaseIDs[id2] = x =>
                                  id2 \in DOMAIN outputBaseIDs'
                                     /\ outputBaseIDs'[id2] = x
       /\ changeID' = Cardinality(Objects') + Cardinality(Objects' \ Listed')]_vars

\* A Clean is about to commit, but the state it has read was detached by
\* the other Clean and the output base has a new state with a build.
C24_Witness ==
    \E t \in Threads :
        /\ At(t, "Clean", "commit")
        /\ calls[t].loc \notin Listed
        /\ calls[t].arg \in DOMAIN outputBaseIDs
        /\ outputBaseIDs[calls[t].arg] # calls[t].loc
        /\ heap[outputBaseIDs[calls[t].arg]].buildState # NoBuildState

\* Two Cleans of the same state: one has detached it, the other is about
\* to commit.
C24_SecondClean ==
    \E t \in Threads :
        /\ At(t, "Clean", "commit")
        /\ calls[t].loc \notin Listed
        /\ outputBaseIDs = <<>>

----------------------------------------------------------------------------
(* C25 *)

\* The step of StartBuild that leaves its locked section (lines 288-340).
StartBuildLeavesLock(t) ==
    /\ calls[t].pc # "filter"
    /\ calls'[t].op = "StartBuild"
    /\ calls'[t].pc = "filter"

\* The step of StartBuild that runs the filter (lines 348-350).
StartBuildFilters(t) ==
    /\ calls[t].op = "StartBuild"
    /\ calls[t].pc = "filter"
    /\ calls'[t].pc = "done"

\* C25: a StartBuild whose build id is already in the build id map changes
\* nothing of the registry (no output path is created, no build state is
\* replaced, no build is closed) and runs the filter, with the digest
\* function of its own request, on the output path the build id is bound to.
C25_KnownBuildIDOnlyFilters ==
    [][\A t \in Threads :
        /\ (StartBuildLeavesLock(t) /\ calls'[t].arg.buildID \in DOMAIN buildIDs)
             => /\ UNCHANGED <<registryVars, trees>>
                /\ calls'[t].loc = buildIDs[calls'[t].arg.buildID]
        /\ StartBuildFilters(t)
             => /\ UNCHANGED registryVars
                /\ calls'[t].response.fn = calls[t].arg.digestFunction
                /\ \A x \in DOMAIN trees : x # calls[t].loc => trees'[x] = trees[x]]_vars

\* A StartBuild that returned for a build id bound to another output base
\* and another digest function than its request names.
C25_Witness ==
    /\ calls[1].op = "StartBuild"
    /\ calls[1].pc = "done"
    /\ calls[1].result = OK
    /\ calls[1].arg.outputBaseID \notin DOMAIN outputBaseIDs
    /\ calls[1].arg.buildID \in DOMAIN buildIDs
    /\ buildIDs[calls[1].arg.buildID] = calls[1].loc
    /\ heap[calls[1].loc].buildState.id = calls[1].arg.buildID
    /\ heap[calls[1].loc].buildState.digestFunction # calls[1].arg.digestFunction

----------------------------------------------------------------------------
(* C26 *)

\* StartBuild of thread t has returned the error of its filter.
StartBuildFailedInFilter(t) ==
    /\ calls[t].op = "StartBuild"
    /\ calls[t].pc = "done"
    /\ calls[t].result \notin {OK, InvalidArgument}

\* Thread u starts a BatchCreate or BatchStat with this build id.
StartsBatch(u, buildId) ==
    /\ Free(u)
    /\ calls'[u].op \in {"BatchCreate", "BatchStat"}
    /\ ~SameCall(calls[u], calls'[u])
    /\ calls'[u].arg.buildID = buildId

\* C26: when the filter of a StartBuild fails, StartBuild returns that
\* error and the step changes nothing of the registry: the output path the
\* call selected is registered, on the list and bound to the build id after
\* the step when it was before, no build id comes back, and as long as the
\* build id is bound a BatchCreate or BatchStat with it passes validation
\* on that output path.
C26_FilterFailureKeepsRegistry ==
    [][\A t \in Threads :
        /\ (StartBuildFilters(t) /\ calls'[t].response.st.err # OK)
             => /\ calls'[t].result = calls'[t].response.st.err
                /\ UNCHANGED registryVars
                /\ calls[t].loc \in Listed => calls[t].loc \in Listed'
                /\ DOMAIN buildIDs' = DOMAIN buildIDs
                /\ DOMAIN outputBaseIDs' = DOMAIN outputBaseIDs
        /\ \A u \in Threads :
             (/\ StartBuildFailedInFilter(t)
              /\ calls[t].arg.buildID \in DOMAIN buildIDs
              /\ StartsBatch(u, calls[t].arg.buildID))
             => /\ calls'[u].pc \in {"create", "stat"}
                /\ calls'[u].loc.state = buildIDs[calls[t].arg.buildID]]_vars

\* A StartBuild that created its output path and failed in the filter,
\* with the output path registered, on the list and bound to its build id,
\* and a BatchCreate of the other thread validated with that build id.
C26_Witness ==
    \E t, u \in Threads :
        /\ StartBuildFailedInFilter(t)
        /\ calls[t].underLock = {"StartInitialBuild"}
        /\ calls[t].arg.outputBaseID \in DOMAIN outputBaseIDs
        /\ outputBaseIDs[calls[t].arg.outputBaseID] = calls[t].loc
        /\ calls[t].loc \in Listed
        /\ calls[t].arg.buildID \in DOMAIN buildIDs
        /\ buildIDs[calls[t].arg.buildID] = calls[t].loc
        /\ At(u, "BatchCreate", "create")
        /\ calls[u].arg.buildID = calls[t].arg.buildID

\* A StartBuild on a registered output base that closed the build of the
\* other build id and failed in the filter: the other build id is unknown.
C26_SupersededStaysClosed ==
    \E t \in Threads :
        /\ StartBuildFailedInFilter(t)
        /\ calls[t].underLock = {}
        /\ calls[t].arg.buildID \in DOMAIN buildIDs
        /\ buildIDs[calls[t].arg.buildID] = calls[t].loc
        /\ heap[calls[t].loc].buildState.id = calls[t].arg.buildID
        /\ DOMAIN buildIDs = {calls[t].arg.buildID}

----------------------------------------------------------------------------
(* C27 *)

\* RemoveAllChildren has failed for the Clean of thread t in this step.
CleanRemovalFails(t) ==
    /\ calls[t].op = "Clean"
    /\ calls[t].pc = "removeAllChildren"
    /\ calls'[t].result = Internal

\* C27: when RemoveAllChildren fails, Clean returns its error at once and
\* nothing of the registry changes: the output base keeps its state, the
\* state stays on the list with the build it had, the change counter keeps
\* its value and NotifyRemoval is not called.
C27_FailedRemovalChangesNothing ==
    [][\A t \in Threads :
        CleanRemovalFails(t)
        => /\ calls'[t].pc = "done"
           /\ changeID' = changeID
           /\ outputBaseIDs' = outputBaseIDs
           /\ buildIDs' = buildIDs
           /\ heap' = heap
           /\ Listed' = Listed
           /\ notified' = notified]_vars

\* A Clean that returned the error of RemoveAllChildren: its output base is
\* registered, on the list and has a build whose id is bound to it, and
\* NotifyRemoval was never called for it.
C27_Witness ==
    /\ calls[1].op = "Clean"
    /\ calls[1].pc = "done"
    /\ calls[1].result = Internal
    /\ calls[1].arg \in DOMAIN outputBaseIDs
    /\ outputBaseIDs[calls[1].arg] \in Listed
    /\ heap[outputBaseIDs[calls[1].arg]].buildState # NoBuildState
    /\ heap[outputBaseIDs[calls[1].arg]].buildState.id \in DOMAIN buildIDs
    /\ notified[calls[1].arg] = 0
    /\ changeID = 1

----------------------------------------------------------------------------
(* C28 *)

\* The nodes whose removeFunc is in a queue.
QueuedNodes(queue) == UNION {Range(queue[d]) : d \in DOMAIN queue}

\* The visited nodes whose digests are known and of which one is of
\* another digest function than the run's.
ForeignNodes(run) ==
    {n \in DOMAIN run.nodes :
        /\ run.nodes[n].kind = "leaf" \/ run.nodes[n].closure = OK
        /\ \E d \in run.nodes[n].digests : d.fn # run.fn}

\* C28: a node with a digest of another digest function than the build's
\* has its removeFunc called at once (it is removed, or the removal is the
\* error the traversal stops with) and has none of its digests queued for
\* it, neither in the queue nor in any batch given to FindMissing; no
\* digest of another digest function is ever in a FindMissing call.
C28_ForeignNodeIsRemovedUnqueried ==
    /\ \A n \in ForeignNodes(filterRun) :
          /\ filterRun.nodes[n].id \notin QueuedNodes(filterRun.st.queue)
          /\ \A i \in DOMAIN filterRun.st.batches :
                filterRun.nodes[n].id \notin QueuedNodes(filterRun.st.batches[i].queue)
          /\ IF filterRun.nodes[n].id \in filterRun.failing
             THEN /\ filterRun.nodes[n].id \notin filterRun.st.removed
                  /\ filterRun.st.err = Internal
                  /\ n = Len(filterRun.nodes)
             ELSE filterRun.nodes[n].id \in filterRun.st.removed
    /\ \A i \in DOMAIN filterRun.st.calls :
          \A d \in filterRun.st.calls[i] : d.fn = filterRun.fn

\* A run that is over without error, in which a directory with one digest
\* of the build's digest function and one of another was removed, and a
\* file with that same digest of the build's was queried and kept.
C28_Witness ==
    /\ filterRun.phase = "done"
    /\ filterRun.st.err = OK
    /\ \E n, m \in DOMAIN filterRun.nodes :
          /\ n \in ForeignNodes(filterRun)
          /\ \E d \in filterRun.nodes[n].digests : d.fn = filterRun.fn
          /\ filterRun.nodes[n].id \in filterRun.st.removed
          /\ n < m
          /\ filterRun.nodes[m].digests \subseteq filterRun.nodes[n].digests
          /\ filterRun.nodes[m].digests # {}
          /\ filterRun.nodes[m].id \notin filterRun.st.removed
          /\ filterRun.st.calls # <<>>

\* A run that stopped because the removal of such a node failed.
C28_RemovalFailed ==
    /\ filterRun.phase = "done"
    /\ filterRun.st.err = Internal
    /\ Len(filterRun.nodes) \in ForeignNodes(filterRun)
    /\ filterRun.nodes[Len(filterRun.nodes)].id \in filterRun.failing

----------------------------------------------------------------------------
(* C29 *)

\* The node the callback was handed in this step.
Visited == filterRun'.nodes[Len(filterRun'.nodes)]

\* C29: when the closure of a directory cannot be computed, then for
\* NotFound the directory is removed, no error is saved and the traversal
\* goes on (unless the removal itself fails, which stops it); for any
\* other error nothing is removed, the traversal stops and that error is
\* the one the filter returns.  Neither case queues or queries anything.
C29_ClosureErrors ==
    [][(/\ Len(filterRun'.nodes) = Len(filterRun.nodes) + 1
        /\ Visited.kind = "directory"
        /\ Visited.closure # OK)
       => /\ filterRun'.st.queue = filterRun.st.queue
          /\ filterRun'.st.calls = filterRun.st.calls
          /\ IF Visited.closure = NotFound /\ Visited.id \notin filterRun.failing
             THEN /\ filterRun'.st.removed = filterRun.st.removed \cup {Visited.id}
                  /\ filterRun'.st.err = OK
                  /\ filterRun'.phase = "visiting"
             ELSE /\ filterRun'.st.removed = filterRun.st.removed
                  /\ filterRun'.st.err =
                        IF Visited.closure = NotFound THEN Internal ELSE Visited.closure
                  /\ filterRun'.phase = "done"]_vars

\* A run that ended without error after a directory whose closure was
\* NotFound was removed and a later file was queried and kept.
C29_Witness ==
    /\ filterRun.phase = "done"
    /\ filterRun.st.err = OK
    /\ \E n, m \in DOMAIN filterRun.nodes :
          /\ n < m
          /\ filterRun.nodes[n].kind = "directory"
          /\ filterRun.nodes[n].closure = NotFound
          /\ filterRun.nodes[n].id \in filterRun.st.removed
          /\ filterRun.nodes[m].digests # {}
          /\ filterRun.nodes[m].id \notin filterRun.st.removed
          /\ filterRun.st.calls # <<>>

\* A run that stopped at a directory whose closure failed otherwise, with
\* a file queued before it that was never queried.
C29_StoppedByClosure ==
    /\ filterRun.phase = "done"
    /\ filterRun.st.err = Internal
    /\ Len(filterRun.nodes) = 2
    /\ filterRun.nodes[2].kind = "directory"
    /\ filterRun.nodes[2].closure = Internal
    /\ filterRun.st.queue # NoQueue
    /\ filterRun.st.calls = <<>>
    /\ filterRun.st.removed = {}

----------------------------------------------------------------------------
(* C30 *)

\* Where a requested path, walked from the root through directories by
\* name, meets a leaf: the positions of that component (none or one).
MeetsLeafAt(tree, statPath) ==
    {k \in 1..Len(statPath) :
        /\ SubSeq(statPath, 1, k) \in DOMAIN tree.nodes
        /\ tree.nodes[SubSeq(statPath, 1, k)].kind \in {"file", "symlink"}}

\* What BatchStat answers for a path on its own.
Answer1(w, statPath) == StatPath(w, statPath).response

\* C30: in a completed BatchStat, a path that meets a file before its last
\* component fails the call, with ENOTDIR when no earlier path failed it;
\* in a successful call, a path that meets a symbolic link before its last
\* component, or at its last component with followSymlinks, is answered as
\* the path with the link replaced by its target; a path that ends in a
\* symbolic link without followSymlinks is answered with the link itself;
\* a path that ends in a file is answered with the file, and no file in
\* the response carries a digest unless includeFileDigest was set.
C30_SymlinksLeavesAndDigests ==
    \A t \in Threads : StatCompleted(t) =>
        LET request == calls[t].arg.request
            paths == request.paths
            w == CompletedStatWalker(t)
            leaf == [i \in DOMAIN paths |->
                       [at |-> MeetsLeafAt(w.tree, paths[i]), last |-> Len(paths[i])]]
            node == [i \in DOMAIN paths |->
                       IF leaf[i].at = {} THEN [kind |-> "none"]
                       ELSE w.tree.nodes[SubSeq(paths[i], 1,
                                CHOOSE k \in leaf[i].at : TRUE)]]
        IN /\ \A i \in DOMAIN paths :
                (node[i].kind = "file" /\ leaf[i].at # {leaf[i].last})
                => /\ calls[t].result # OK
                   /\ (\A j \in 1..(i - 1) :
                          Resolution(w, paths[j]).err \in {OK, ENOENT})
                      => calls[t].result = "ENOTDIR"
           /\ calls[t].result = OK =>
                \A i \in DOMAIN paths :
                   /\ (node[i].kind = "symlink"
                         /\ (leaf[i].at # {leaf[i].last} \/ request.followSymlinks))
                      => /\ calls[t].response[i] =
                              Answer1(w, Substituted(w.tree, paths[i],
                                                     request.followSymlinks))
                         /\ calls[t].response[i].type # "symlink"
                   /\ (node[i].kind = "symlink" /\ leaf[i].at = {leaf[i].last}
                         /\ ~request.followSymlinks)
                      => calls[t].response[i] =
                            [type |-> "symlink", target |-> node[i].target]
                   /\ (node[i].kind = "file" /\ leaf[i].at = {leaf[i].last})
                      => calls[t].response[i] =
                            [type |-> "file",
                             digest |-> IF request.includeFileDigest
                                        THEN <<node[i].digest>> ELSE <<>>]
                   /\ (calls[t].response[i].type = "file"
                         /\ calls[t].response[i].digest # <<>>)
                      => request.includeFileDigest

\* A successful BatchStat without followSymlinks and without
\* includeFileDigest: its first path went through a symbolic link to a
\* file, answered without a digest; its second path ends in that link,
\* answered with the link.
C30_Witness ==
    \E t \in Threads :
        /\ StatCompleted(t) /\ calls[t].result = OK
        /\ ~calls[t].arg.request.followSymlinks
        /\ ~calls[t].arg.request.includeFileDigest
        /\ MeetsLeafAt(CompletedStatWalker(t).tree, calls[t].arg.request.paths[1]) = {1}
        /\ Len(calls[t].arg.request.paths[1]) = 2
        /\ calls[t].response[1].type = "file"
        /\ calls[t].response[1].digest = <<>>
        /\ calls[t].response[2].type = "symlink"

\* A successful BatchStat with followSymlinks whose first path ends in a
\* symbolic link to a directory: the directory is the answer.
C30_FinalLinkFollowed ==
    \E t \in Threads :
        /\ StatCompleted(t) /\ calls[t].result = OK
        /\ calls[t].arg.request.followSymlinks
        /\ MeetsLeafAt(CompletedStatWalker(t).tree, calls[t].arg.request.paths[1]) = {1}
        /\ Len(calls[t].arg.request.paths[1]) = 1
        /\ calls[t].response[1].type = "directory"

\* A BatchStat that failed on a file in the middle of a path.
C30_FileInTheMiddle ==
    \E t \in Threads :
        /\ StatCompleted(t) /\ calls[t].result = "ENOTDIR"
        /\ MeetsLeafAt(CompletedStatWalker(t).tree, calls[t].arg.request.paths[2]) = {2}
        /\ Len(calls[t].arg.request.paths[2]) = 3

\* A successful BatchStat with includeFileDigest whose first path is a
\* file: the answer carries its digest.
C30_FileWithDigest ==
    \E t \in Threads :
        /\ StatCompleted(t) /\ calls[t].result = OK
        /\ calls[t].arg.request.includeFileDigest
        /\ calls[t].response[1].type = "file"
        /\ calls[t].response[1].digest # <<>>

----------------------------------------------------------------------------
(* C31 *)

\* A path that names no leaf position: it is empty or ends in "." (as a
\* path with a trailing slash does) or in "..".
NoLeafPosition(path) ==
    path = <<>> \/ path[Len(path)] \in {".", ".."}

\* The directory a path of names, "." and ".." leads to from a directory,
\* by the names alone; <<"..">> when it moves above the root.
RECURSIVE LeadsTo(_, _)
LeadsTo(stack, comps) ==
    IF comps = <<>> THEN stack
    ELSE IF Head(comps) = "." THEN LeadsTo(stack, Tail(comps))
    ELSE IF Head(comps) = ".."
    THEN IF stack = <<>> THEN <<"..">> ELSE LeadsTo(Front(stack), Tail(comps))
    ELSE LeadsTo(Append(stack, Head(comps)), Tail(comps))

\* The entries of a request in the order in which BatchCreate creates them.
EntriesInOrder(request) ==
    [i \in 1..Len(request.files) |->
        [path |-> request.files[i].path, kind |-> "file"]]
    \o [i \in 1..Len(request.directories) |->
        [path |-> request.directories[i].path, kind |-> "casdir"]]
    \o [i \in 1..Len(request.symlinks) |->
        [path |-> request.symlinks[i].path, kind |-> "symlink"]]

\* Thread t carries out the tree operations of its BatchCreate.
BatchCreateCreates(t) ==
    /\ calls[t].op = "BatchCreate"
    /\ calls[t].pc = "create"
    /\ calls'[t].pc = "done"

\* C31: a BatchCreate whose first entry has a path that names no leaf
\* position but leads to a directory inside the output path fails with
\* InvalidArgument; that directory is a directory afterwards, not the node
\* of the entry, and every node the tree held is still there unchanged.
C31_PathToDirectoryIsRejected ==
    [][\A t \in Threads :
        (/\ BatchCreateCreates(t)
         /\ EntriesInOrder(calls[t].arg.request) # <<>>
         /\ NoLeafPosition(EntriesInOrder(calls[t].arg.request)[1].path)
         /\ LeadsTo(<<>>, calls[t].arg.request.pathPrefix
                           \o EntriesInOrder(calls[t].arg.request)[1].path)
               # <<"..">>)
        => LET request == calls[t].arg.request
               state == calls[t].loc.state
               directory == LeadsTo(<<>>, request.pathPrefix
                                          \o EntriesInOrder(request)[1].path)
           IN /\ calls'[t].result = InvalidArgument
              /\ IsDirectoryAt(trees'[state], directory)
              /\ directory # <<>> => trees'[state].nodes[directory] = DirNode
              /\ \A q \in DOMAIN trees[state].nodes :
                    /\ q \in DOMAIN trees'[state].nodes
                    /\ trees'[state].nodes[q] = trees[state].nodes[q]]_vars

\* A BatchCreate of a file at "a/" was rejected; the directory a is in
\* place with the file it held.
C31_Witness ==
    \E t \in Threads :
        /\ calls[t].op = "BatchCreate"
        /\ calls[t].pc = "done"
        /\ calls[t].result = InvalidArgument
        /\ calls[t].arg.request.files # <<>>
        /\ NoLeafPosition(calls[t].arg.request.files[1].path)
        /\ calls[t].arg.buildID \in DOMAIN buildIDs
        /\ IsDirectoryAt(trees[buildIDs[calls[t].arg.buildID]], <<"a">>)
        /\ <<"a", "f">> \in DOMAIN trees[buildIDs[calls[t].arg.buildID]].nodes

\* The same for a directory at "." under the prefix a, and for a symbolic
\* link at ".." under the prefix a, which leads to the root.
C31_DirectoryAndSymlink ==
    \E t \in Threads :
        /\ calls[t].op = "BatchCreate"
        /\ calls[t].pc = "done"
        /\ calls[t].result = InvalidArgument
        /\ calls[t].arg.request.files = <<>>
        /\ EntriesInOrder(calls[t].arg.request) # <<>>
        /\ NoLeafPosition(EntriesInOrder(calls[t].arg.request)[1].path)
        /\ EntriesInOrder(calls[t].arg.request)[1].kind = "symlink"

----------------------------------------------------------------------------
(* C32 *)

\* Thread t takes a step of a call of this operation: it starts the call
\* (and fails validation or passes it) or carries out its tree operations.
StepsIn(t, op) ==
    \/ /\ Free(t)
       /\ calls'[t].op = op
       /\ ~SameCall(calls[t], calls'[t])
    \/ /\ calls[t].op = op
       /\ calls[t].pc \in {"create", "stat"}
       /\ calls'[t].pc = "done"

\* C32: no step of a BatchStat changes the registry (change counter, maps,
\* list, build states), the NotifyRemoval counts or any tree, and no step
\* of a BatchCreate changes the registry or the NotifyRemoval counts or a
\* tree other than the one of the state it holds, whatever the call
\* returns.
C32_BatchCallsKeepTheRegistry ==
    [][\A t \in Threads :
        /\ StepsIn(t, "BatchStat")
             => UNCHANGED <<changeID, outputBaseIDs, buildIDs, heap, notified, trees>>
        /\ StepsIn(t, "BatchCreate")
             => /\ UNCHANGED <<changeID, outputBaseIDs, buildIDs, heap, notified>>
                /\ \A x \in DOMAIN trees :
                      (calls[t].pc # "create" \/ x # calls[t].loc.state)
                      => trees'[x] = trees[x]]_vars

\* A BatchStat that answered with a file: a BatchCreate has succeeded in
\* this build and the build is still running.
C32_Witness ==
    \E t \in Threads :
        /\ calls[t].op = "BatchStat"
        /\ calls[t].pc = "done"
        /\ calls[t].result = OK
        /\ calls[t].response[1].type = "file"
        /\ calls[t].arg.buildID \in DOMAIN buildIDs
        /\ heap[buildIDs[calls[t].arg.buildID]].buildState.id = calls[t].arg.buildID

\* Both calls refused for their build id, with a build running.
C32_Refused ==
    /\ calls[1].op = "BatchStat" /\ calls[1].pc = "done"
    /\ calls[1].result = FailedPrecondition
    /\ calls[2].op = "BatchCreate" /\ calls[2].pc = "done"
    /\ calls[2].result = FailedPrecondition
    /\ buildIDs # <<>>

\* A BatchCreate that failed in its tree operations.
C32_CreateFailed ==
    \E t \in Threads :
        /\ calls[t].op = "BatchCreate"
        /\ calls[t].pc = "done"
        /\ calls[t].result \notin {OK, FailedPrecondition}

----------------------------------------------------------------------------
(* C33 *)

\* The states reached from the sentinel by following previous.
RECURSIVE RingBackFrom(_, _, _)
RingBackFrom(h, x, fuel) ==
    IF x = 0 \/ fuel = 0 THEN <<>>
    ELSE <<x>> \o RingBackFrom(h, h[x].previous, fuel - 1)

RingBack == RingBackFrom(heap, heap[0].previous, Cardinality(DOMAIN heap))

\* What a VirtualReadDir from cookie 0 reports to a reporter that takes
\* every entry.
FullReadDir == ReadDirEntries(0, Cardinality(DOMAIN heap))

\* C33: the list is a circular doubly-linked list through the sentinel:
\* following next from the sentinel comes back to it, following previous
\* visits the same states in reverse, and x.next.previous = x =
\* x.previous.next for the sentinel and every member; the members are the
\* states of the output base map, each once and under its own name, in
\* the order of their cookies.  So the link count of VirtualGetAttributes
\* is EmptyDirectoryLinkCount plus the number of entries of a full
\* VirtualReadDir from cookie 0, in the state and in the responses of the
\* completed calls.
C33_RingIsTheOutputBaseMap ==
    /\ Len(Ring) < Cardinality(DOMAIN heap)
    /\ RingBack = [i \in 1..Len(Ring) |-> Ring[Len(Ring) + 1 - i]]
    /\ \A x \in Range(Ring) \cup {0} :
          /\ heap[heap[x].next].previous = x
          /\ heap[heap[x].previous].next = x
    /\ Range(Ring) = {outputBaseIDs[id] : id \in DOMAIN outputBaseIDs}
    /\ Len(Ring) = Cardinality(DOMAIN outputBaseIDs)
    /\ \A i \in 1..Len(Ring) :
          /\ heap[Ring[i]].outputBaseID \in DOMAIN outputBaseIDs
          /\ outputBaseIDs[heap[Ring[i]].outputBaseID] = Ring[i]
          /\ \A j \in 1..Len(Ring) :
                i < j => heap[Ring[i]].cookie < heap[Ring[j]].cookie
    /\ EmptyDirectoryLinkCount + Cardinality(DOMAIN outputBaseIDs)
          = EmptyDirectoryLinkCount + Len(FullReadDir)
    /\ \A t \in Threads :
          /\ (calls[t].op = "VirtualGetAttributes" /\ calls[t].pc = "done")
             => calls[t].response.linkCount
                  = EmptyDirectoryLinkCount + Len(FullReadDir)
          /\ (/\ calls[t].op = "VirtualReadDir" /\ calls[t].pc = "done"
              /\ calls[t].arg.firstCookie = 0
              /\ calls[t].arg.capacity >= Cardinality(OutputBases))
             => /\ calls[t].response = FullReadDir
                /\ {calls[t].response[i].name : i \in DOMAIN calls[t].response}
                      = DOMAIN outputBaseIDs

\* VirtualGetAttributes has answered with two output paths on the list,
\* after the removal of an output path that was created before them.
C33_Witness ==
    /\ calls[1].op = "VirtualGetAttributes"
    /\ calls[1].pc = "done"
    /\ calls[1].response.linkCount = EmptyDirectoryLinkCount + 2
    /\ Len(Ring) = 2
    /\ heap[Ring[1]].cookie > 0
    /\ changeID >= 4

\* A VirtualReadDir from cookie 0 has reported the one output path left
\* after one of two was removed.
C33_ReadDirAfterRemoval ==
    /\ calls[1].op = "VirtualReadDir"
    /\ calls[1].pc = "done"
    /\ calls[1].arg.firstCookie = 0
    /\ Len(calls[1].response) = 1
    /\ changeID = 3

====
